---- MODULE Spec2Model ----
(***************************************************************************)
(* A model of mongoengine's query/update expression compiler               *)
(* (mongoengine/queryset/transform.py) and of the persistence life cycle   *)
(* of a Document instance (mongoengine/document.py).                       *)
(*                                                                         *)
(* Python values are tagged pairs <<tag, payload>>:                        *)
(*   <<"none", 0>>            None                                         *)
(*   <<"int", n>>             an integer                                   *)
(*   <<"str", s>>             a one-character string                       *)
(*   <<"prep", <<op, v>>>>    field.prepare_query_value(op, v)             *)
(*   <<"list", <<v1, ...>>>>  a list                                       *)
(*   <<"tuple", <<v1, ...>>>> a tuple                                      *)
(*   <<"set", <<v1, ...>>>>   a set, in the order it iterates              *)
(*   <<"dict", <<e1, ...>>>>  a mapping, its entries <<key, value>> in     *)
(*                            insertion order                              *)
(* A mapping key is the tuple of the segments that '.'.join() glues        *)
(* together: 'a.0' is <<"a", "0">>, '$gt' is <<"$gt">>.                    *)
(***************************************************************************)
EXTENDS Integers, Sequences, FiniteSets, TLC

VARIABLES
    q_doc_cls,      \* query(): whether _doc_cls was supplied
    q_kwargs,       \* query(): the keyword pairs, rank of the key -> value
    q_ret,          \* query(): the exception raised and the document returned
    q_pc,           \* query(): "call" before the call, "done" after it,
                    \*          "sent" once the caller has used the result
    q_sent,         \* the filter document handed to the storage collaborator
    q_raw,          \* query(): the mapping the caller passed as __raw__, as
                    \*   the caller sees it now (None when none was passed)
    u_doc_cls,      \* update(): whether _doc_cls was supplied
    u_kwargs,       \* update(): the keyword pairs <<key, value>> in the
                    \*   order update.items() yields them
    u_ret,          \* update(): the exception raised and the document returned
    u_pc,           \* update(): "call", "done" and "sent" as for query()
    u_sent,         \* the update document handed to the storage collaborator
    u_raw,          \* update(): the mapping the caller passed as __raw__, as
                    \*   the caller sees it now (None when none was passed)
    created,        \* Document._created: the instance has been persisted
    db_data,        \* Document._db_data: the stored document the instance
                    \*   was hydrated from, storage name -> stored value
    internal_data,  \* Document._internal_data: the local values, field
                    \*   name -> value (val), and the paths dirtied by the
                    \*   assignments that made them (dirty)
    store,          \* the collection: the stored document of the instance
    d_op,           \* the last operation on the instance: its name, the
                    \*   storage call it made and the exception it raised
    c_docs,         \* cascade: the self-referencing collection as it was
                    \*   built, identifier -> identifier of the parent (0
                    \*   for none), and the document delete() is called on
    c_coll,         \* cascade: the identifiers stored in the collection
    c_stack,        \* cascade: the QuerySet.delete() calls in progress,
                    \*   outermost first: the identifiers matched and the
                    \*   position in the call
    c_removed,      \* cascade: identifier -> number of times removed
    c_pc            \* cascade: "call" before delete(), "running", "done"

qvars == <<q_doc_cls, q_kwargs, q_ret, q_pc, q_sent, q_raw>>
uvars == <<u_doc_cls, u_kwargs, u_ret, u_pc, u_sent, u_raw>>
dvars == <<created, db_data, internal_data, store, d_op>>
cvars == <<c_docs, c_coll, c_stack, c_removed, c_pc>>
vars == <<q_doc_cls, q_kwargs, q_ret, q_pc, q_sent, q_raw,
          u_doc_cls, u_kwargs, u_ret, u_pc, u_sent, u_raw,
          created, db_data, internal_data, store, d_op,
          c_docs, c_coll, c_stack, c_removed, c_pc>>

-----------------------------------------------------------------------------
(* Values *)

VNone == <<"none", 0>>
VInt(n) == <<"int", n>>
VStr(s) == <<"str", s>>
VPrep(op, v) == <<"prep", <<op, v>>>>
VList(s) == <<"list", s>>
VDict(e) == <<"dict", e>>
VTuple(s) == <<"tuple", s>>
VSet(s) == <<"set", s>>

IsDict(v) == v[1] = "dict"
IsList(v) == v[1] = "list"
IsStr(v) == v[1] = "str"
IsInt(v) == v[1] = "int"
IsTuple(v) == v[1] = "tuple"
IsSet(v) == v[1] = "set"
Items(v) == v[2]

K(s) == <<s>>

DictKeys(d) == {Items(d)[i][1] : i \in 1..Len(Items(d))}
DictHas(d, k) == k \in DictKeys(d)
DictGet(d, k) == Items(d)[CHOOSE i \in 1..Len(Items(d)) : Items(d)[i][1] = k][2]

\* d[k] = v: an existing key keeps its place, a new key goes last
DictPut(d, k, v) ==
    IF DictHas(d, k)
    THEN VDict([i \in 1..Len(Items(d)) |->
                 IF Items(d)[i][1] = k THEN <<k, v>> ELSE Items(d)[i]])
    ELSE VDict(Append(Items(d), <<k, v>>))

\* del d[k]
DictDel(d, k) == VDict(SelectSeq(Items(d), LAMBDA e : e[1] # k))

\* d.update(other) for a mapping other
RECURSIVE DictUpdateFrom(_, _, _)
DictUpdateFrom(d, es, i) ==
    IF i > Len(es) THEN d
    ELSE DictUpdateFrom(DictPut(d, es[i][1], es[i][2]), es, i + 1)

DictUpdate(d, other) == DictUpdateFrom(d, Items(other), 1)

\* what dict.update(v) raises for a v that is no mapping: a one-character
\* string is a sequence whose element has length 1, anything else of the
\* model (int, compiled pattern, None) is not iterable
DictUpdateError(v) == IF IsStr(v) THEN "ValueError" ELSE "TypeError"

-----------------------------------------------------------------------------
(* transform.py: the operator vocabularies *)

COMPARISON_OPERATORS ==
    {"ne", "gt", "gte", "lt", "lte", "in", "nin", "mod", "all", "size",
     "exists", "not"}
GEO_OPERATORS ==
    {"within_distance", "within_spherical_distance", "within_box",
     "within_polygon", "near", "near_sphere", "max_distance", "geo_within",
     "geo_within_box", "geo_within_polygon", "geo_within_center",
     "geo_within_sphere", "geo_intersects"}
STRING_OPERATORS ==
    {"contains", "icontains", "startswith", "istartswith", "endswith",
     "iendswith", "exact", "iexact"}
CUSTOM_OPERATORS == {"match"}
MATCH_OPERATORS ==
    COMPARISON_OPERATORS \cup GEO_OPERATORS \cup STRING_OPERATORS
        \cup CUSTOM_OPERATORS

\* '$' + op
Dollar(op) ==
    CASE op = "ne" -> "$ne" [] op = "gt" -> "$gt" [] op = "gte" -> "$gte"
      [] op = "lt" -> "$lt" [] op = "lte" -> "$lte" [] op = "in" -> "$in"
      [] op = "nin" -> "$nin" [] op = "mod" -> "$mod" [] op = "all" -> "$all"
      [] op = "size" -> "$size" [] op = "exists" -> "$exists"
      [] op = "not" -> "$not"
      [] OTHER -> "$?"

-----------------------------------------------------------------------------
(* The schema collaborator: _doc_cls._lookup_field and the fields' interface *)

\* The fields of the document class handed to query() as _doc_cls:
\* db_field is the storage name, geo the kind of geo index of the field
\* ("2d" for pymongo.GEO2D), doc the embedded document type it holds.
SchemaFields ==
    [Doc |-> {[name |-> "f",      db_field |-> "f",      geo |-> "none",    doc |-> "none"],
              [name |-> "id",     db_field |-> "_id",    geo |-> "none",    doc |-> "none"],
              [name |-> "pk",     db_field |-> "_id",    geo |-> "none",    doc |-> "none"],
              [name |-> "loc",    db_field |-> "loc",    geo |-> "geojson", doc |-> "none"],
              [name |-> "pt",     db_field |-> "pt",     geo |-> "2d",      doc |-> "none"],
              [name |-> "tags",   db_field |-> "tags",   geo |-> "none",    doc |-> "none"],
              [name |-> "author", db_field |-> "author", geo |-> "none",    doc |-> "none"],
              [name |-> "posts",  db_field |-> "posts",  geo |-> "none",    doc |-> "Post"],
              [name |-> "comments", db_field |-> "comments", geo |-> "none", doc |-> "Comment"]},
     Post |-> {[name |-> "comments", db_field |-> "comments", geo |-> "none", doc |-> "Comment"]},
     Comment |-> {[name |-> "name",  db_field |-> "name",  geo |-> "none", doc |-> "none"],
                  [name |-> "vote",  db_field |-> "vote",  geo |-> "none", doc |-> "none"],
                  [name |-> "votes", db_field |-> "votes", geo |-> "none", doc |-> "none"]}]

NoField == [name |-> "", db_field |-> "", geo |-> "none", doc |-> "none"]

\* str.isdigit() of a segment
Digits == {"0", "1", "2"}
IsDigit(p) == p \in Digits

\* what _lookup_field returns for a segment that is no field name but an
\* index or the positional marker S into a list of embedded documents:
\* the segment itself, a string
StrField(seg, doc) == [name |-> seg, db_field |-> seg, geo |-> "none", doc |-> doc]
IsStrField(fl) == fl.name \in Digits \cup {"S"}

\* _doc_cls._lookup_field(parts): the field of every segment, or a failure
\* when a segment names no field of the document it is looked up in; a
\* reference field (author) holds no field to look up
RECURSIVE LookupFrom(_, _, _)
LookupFrom(doc, parts, i) ==
    IF i > Len(parts) THEN [ok |-> TRUE, fields |-> <<>>]
    ELSE IF i > 1 /\ doc \in DOMAIN SchemaFields /\ parts[i] \in Digits \cup {"S"}
         THEN LET rest == LookupFrom(doc, parts, i + 1)
              IN  [ok |-> rest.ok, fields |-> <<StrField(parts[i], doc)>> \o rest.fields]
    ELSE IF doc \notin DOMAIN SchemaFields
              \/ ~\E fl \in SchemaFields[doc] : fl.name = parts[i]
         THEN [ok |-> FALSE, fields |-> <<>>]
         ELSE LET fl == CHOOSE fl \in SchemaFields[doc] : fl.name = parts[i]
                  rest == LookupFrom(fl.doc, parts, i + 1)
              IN  [ok |-> rest.ok, fields |-> <<fl>> \o rest.fields]

LookupField(parts) ==
    IF Len(parts) = 0 THEN [ok |-> FALSE, fields |-> <<>>]
    ELSE LookupFrom("Doc", parts, 1)

\* the exception of _lookup_field left as it is
LookupRaises_propagate == "LookUpError"

\* lines 55-58 and 176-179: except Exception as e: raise InvalidQueryError(e)
LookupRaises == "InvalidQueryError"

\* field.prepare_query_value(op, value)
PrepareQueryValue(field, op, value) == VPrep(op, value)

\* field.required: no field of the schema is required
Required(field) == FALSE

\* lines 59-70 and 180-194: the fields _lookup_field returned that are
\* not strings
CleanedFields(fields) == SelectSeq(fields, LAMBDA fl : ~IsStrField(fl))

\* iterating a value: a list yields its elements, a one-character string
\* yields itself, a mapping yields nothing the model uses, anything else
\* is not iterable
Iterable(v) == IsList(v) \/ IsStr(v) \/ IsDict(v)
IterItems(v) == IF IsList(v) THEN Items(v) ELSE IF IsStr(v) THEN <<v>> ELSE <<>>

-----------------------------------------------------------------------------
(* transform.py: query() *)

\* The keyword names a call of query() may use, listed in the order
\* sorted() gives them ('_' sorts before the lower-case letters); a key
\* is written as the list key.split('__') returns, '__raw__' stands for
\* itself.  The rank of a key is its position in this list.
QueryKeys ==
    << <<"0", "f">>,
       <<"__raw__">>,
       <<"aa">>,
       <<"author", "name">>,
       <<"f">>,
       <<"f", "2", "gt">>,
       <<"f", "contains">>,
       <<"f", "endswith">>,
       <<"f", "exact">>,
       <<"f", "foo">>,
       <<"f", "gt">>,
       <<"f", "icontains">>,
       <<"f", "iendswith">>,
       <<"f", "iexact">>,
       <<"f", "in">>,
       <<"f", "istartswith">>,
       <<"f", "lt">>,
       <<"f", "not", "iexact">>,
       <<"f", "startswith">>,
       <<"id">>,
       <<"id", "gt">>,
       <<"id", "lt">>,
       <<"loc", "geo_within">>,
       <<"loc", "max_distance">>,
       <<"loc", "near">>,
       <<"loc", "within_distance">>,
       <<"pk">>,
       <<"pk", "gt">>,
       <<"posts", "0", "comments", "1", "name">>,
       <<"posts", "1", "comments">>,
       <<"posts", "1", "comments", "0", "name", "startswith">>,
       <<"pt", "geo_within">>,
       <<"pt", "max_distance">>,
       <<"pt", "near">>,
       <<"pt", "within_distance">>,
       <<"tags", "0">>,
       <<"zz", "gt">> >>

\* the keys the calls of several pairs are made of
LoopKeys ==
    { <<"__raw__">>,
      <<"aa">>,
      <<"f">>,
      <<"f", "contains">>,
      <<"f", "gt">>,
      <<"f", "in">>,
      <<"f", "lt">>,
      <<"f", "startswith">>,
      <<"id">>,
      <<"id", "gt">>,
      <<"id", "lt">>,
      <<"loc", "geo_within">>,
      <<"loc", "near">>,
      <<"pk">>,
      <<"pk", "gt">>,
      <<"zz", "gt">> }

IsRaw(key) == key = <<"__raw__">>


\* [(i, p) for i, p in enumerate(parts) if p.isdigit()]
RECURSIVE IndicesFrom(_, _)
IndicesFrom(parts, i) ==
    IF i > Len(parts) THEN <<>>
    ELSE (IF IsDigit(parts[i]) THEN << <<i - 1, parts[i]>> >> ELSE <<>>)
            \o IndicesFrom(parts, i + 1)

\* list.insert with every segment put at the end
ListInsert_append(s, i, x) == Append(s, x)

\* list.insert(i, x): past the end it appends
ListInsert(s, i, x) ==
    IF i >= Len(s) THEN Append(s, x)
    ELSE SubSeq(s, 1, i) \o <<x>> \o SubSeq(s, i + 1, Len(s))

\* for i, part in indices: parts.insert(i, part)
RECURSIVE Reinsert(_, _, _)
Reinsert(parts, indices, j) ==
    IF j > Len(indices) THEN parts
    ELSE Reinsert(ListInsert(parts, indices[j][1], indices[j][2]), indices, j + 1)

Front(s) == SubSeq(s, 1, Len(s) - 1)
Last(s) == s[Len(s)]

Raised(e) == [exc |-> e, key |-> <<>>, op |-> "None", value |-> VNone]
Compiled(key, op, value) == [exc |-> "none", key |-> key, op |-> op, value |-> value]

\* value[0]: the first element of a non-empty list, the string itself for
\* a one-character string; anything else raises
CanIndex0(v) == (IsList(v) /\ Len(Items(v)) > 0) \/ IsStr(v)
Index0(v) == IF IsList(v) THEN Items(v)[1] ELSE v

\* whether value[0]...[0] (n times) evaluates without raising
RECURSIVE CanIndexDepth(_, _)
CanIndexDepth(v, n) ==
    IF n = 0 THEN TRUE
    ELSE CanIndex0(v) /\ CanIndexDepth(Index0(v), n - 1)

Geometry(type, value) ==
    VDict(<< <<K("$geometry"),
              VDict(<< <<K("type"), VStr(type)>>,
                       <<K("coordinates"), value>> >>)>> >>)

\* _infer_geometry(value)
InferGeometry(value) ==
    IF IsDict(value)
    THEN IF DictHas(value, K("$geometry"))
         THEN [exc |-> "none", value |-> value]
         ELSE IF DictHas(value, K("coordinates")) /\ DictHas(value, K("type"))
              THEN [exc |-> "none", value |-> VDict(<< <<K("$geometry"), value>> >>)]
              ELSE [exc |-> "InvalidQueryError", value |-> VNone]
    ELSE IF IsList(value) /\ CanIndexDepth(value, 3)
         THEN [exc |-> "none", value |-> Geometry("Polygon", value)]
    ELSE IF IsList(value) /\ CanIndexDepth(value, 2)
         THEN [exc |-> "none", value |-> Geometry("LineString", value)]
    ELSE IF IsList(value) /\ CanIndexDepth(value, 1)
         THEN [exc |-> "none", value |-> Geometry("Point", value)]
    ELSE [exc |-> "InvalidQueryError", value |-> VNone]

Wrap1(k, v) == VDict(<< <<K(k), v>> >>)
Wrap2(k1, k2, v) == Wrap1(k1, Wrap1(k2, v))
Inferred(k, value) ==
    LET g == InferGeometry(value)
    IN  IF g.exc # "none" THEN g ELSE [exc |-> "none", value |-> Wrap1(k, g.value)]
Plain(v) == [exc |-> "none", value |-> v]

\* _geo_operator(field, op, value)
GeoOperator(field, op, value) ==
    IF field.geo = "2d"
    THEN CASE op = "within_distance" -> Plain(Wrap2("$within", "$center", value))
           [] op = "within_spherical_distance" ->
                  Plain(Wrap2("$within", "$centerSphere", value))
           [] op = "within_polygon" -> Plain(Wrap2("$within", "$polygon", value))
           [] op = "near" -> Plain(Wrap1("$near", value))
           [] op = "near_sphere" -> Plain(Wrap1("$nearSphere", value))
           [] op = "within_box" -> Plain(Wrap2("$within", "$box", value))
           [] op = "max_distance" -> Plain(Wrap1("$maxDistance", value))
           [] OTHER -> [exc |-> "NotImplementedError", value |-> VNone]
    ELSE CASE op = "geo_within" -> Inferred("$geoWithin", value)
           [] op = "geo_within_box" -> Plain(Wrap2("$geoWithin", "$box", value))
           [] op = "geo_within_polygon" -> Plain(Wrap2("$geoWithin", "$polygon", value))
           [] op = "geo_within_center" -> Plain(Wrap2("$geoWithin", "$center", value))
           [] op = "geo_within_sphere" ->
                  Plain(Wrap2("$geoWithin", "$centerSphere", value))
           [] op = "geo_intersects" -> Inferred("$geoIntersects", value)
           [] op = "near" -> Inferred("$near", value)
           [] op = "max_distance" -> Plain(Wrap1("$maxDistance", value))
           [] OTHER -> [exc |-> "NotImplementedError", value |-> VNone]

\* lines 40-51: the numeric segments set aside, the trailing operator and
\* the negation marker popped
ParseKey(key) ==
    LET indices == IndicesFrom(key, 1)
        p1 == SelectSeq(key, LAMBDA p : ~IsDigit(p))
    IN  IF Len(p1) = 0
        THEN [exc |-> "IndexError", parts |-> <<>>, op |-> "None",
              negate |-> FALSE, indices |-> indices]
        ELSE LET hasop == Last(p1) \in MATCH_OPERATORS
                 op == IF hasop THEN Last(p1) ELSE "None"
                 p2 == IF hasop THEN Front(p1) ELSE p1
             IN  IF Len(p2) = 0
                 THEN [exc |-> "IndexError", parts |-> <<>>, op |-> op,
                       negate |-> FALSE, indices |-> indices]
                 ELSE LET negate == Last(p2) = "not"
                      IN  [exc |-> "none",
                           parts |-> IF negate THEN Front(p2) ELSE p2,
                           op |-> op, negate |-> negate, indices |-> indices]

SingularOps == {"None", "ne", "gt", "gte", "lt", "lte", "not"} \cup STRING_OPERATORS

\* lines 72-89: the value coerced through the terminal field
CoerceQueryValue(field, op, value) ==
    IF op \in SingularOps
    THEN [exc |-> "none", value |-> PrepareQueryValue(field, op, value)]
    ELSE IF op \in {"in", "nin", "all", "near"} /\ ~IsDict(value)
         THEN IF ~Iterable(value)
              THEN [exc |-> "TypeError", value |-> VNone]
              ELSE [exc |-> "none",
                    value |-> VList([i \in 1..Len(IterItems(value)) |->
                                PrepareQueryValue(field, op, IterItems(value)[i])])]
         ELSE [exc |-> "none", value |-> value]

\* lines 91-102 with the string operators wrapped as the comparison
\* operators are
OperatorValue_wrap_strings(doc_cls, field, op, value) ==
    IF op = "None" THEN Plain(value)
    ELSE IF op \in GEO_OPERATORS
         THEN IF ~doc_cls THEN [exc |-> "UnboundLocalError", value |-> VNone]
              ELSE GeoOperator(field, op, value)
    ELSE IF op \in CUSTOM_OPERATORS THEN Plain(Wrap1("$elemMatch", value))
    ELSE Plain(Wrap1(Dollar(op), value))

\* lines 91-102: the value wrapped for its operator; field is bound only
\* when a schema was supplied
OperatorValue(doc_cls, field, op, value) ==
    IF op = "None" THEN Plain(value)
    ELSE IF op \in GEO_OPERATORS
         THEN IF ~doc_cls THEN [exc |-> "UnboundLocalError", value |-> VNone]
              ELSE GeoOperator(field, op, value)
    ELSE IF op \in CUSTOM_OPERATORS THEN Plain(Wrap1("$elemMatch", value))
    ELSE IF op \notin STRING_OPERATORS THEN Plain(Wrap1(Dollar(op), value))
    ELSE Plain(value)

\* lines 40-109: one pair of the call compiled to its storage key, its
\* operator and its value
QueryPair(doc_cls, key, value) ==
    LET p == ParseKey(key)
    IN  IF p.exc # "none" THEN Raised(p.exc)
        ELSE LET lk == LookupField(p.parts)
             IN  IF doc_cls /\ ~lk.ok THEN Raised(LookupRaises)
                 ELSE LET field == IF doc_cls THEN Last(CleanedFields(lk.fields))
                                   ELSE NoField
                          parts == IF doc_cls
                                   THEN [i \in 1..Len(lk.fields) |-> lk.fields[i].db_field]
                                   ELSE p.parts
                          c == IF doc_cls THEN CoerceQueryValue(field, p.op, value)
                               ELSE Plain(value)
                      IN  IF c.exc # "none" THEN Raised(c.exc)
                          ELSE LET o == OperatorValue(doc_cls, field, p.op, c.value)
                               IN  IF o.exc # "none" THEN Raised(o.exc)
                                   ELSE Compiled(Reinsert(parts, p.indices, 1), p.op,
                                                 IF p.negate THEN Wrap1("$not", o.value)
                                                 ELSE o.value)

\* MaxDistanceLast with the merged operator document left as dict.update
\* made it
MaxDistanceLast_as_merged(d) == d

\* lines 115-124: $maxDistance moved behind every other key of the merged
\* operator document
MaxDistanceLast(d) ==
    IF DictHas(d, K("$maxDistance"))
    THEN VDict(Append(Items(DictDel(d, K("$maxDistance"))),
                      <<K("$maxDistance"), DictGet(d, K("$maxDistance"))>>))
    ELSE d

\* MergePair with the operator document under the key replaced by the new
\* pair's instead of updated with it
MergePair_overwrite(acc, c) ==
    [acc EXCEPT !.mq = DictPut(acc.mq, c.key, c.value)]

\* the mapping passed as __raw__ among the pairs, None when the call has
\* no such pair
RawIn(items) ==
    IF \E i \in DOMAIN items : IsRaw(items[i][1])
    THEN items[CHOOSE i \in DOMAIN items : IsRaw(items[i][1])][2]
    ELSE VNone

\* lines 31-32: mongo_query and merge_query are empty.  The loop shares
\* objects with the caller: raw is the mapping the caller passed as
\* __raw__ as the statements so far have left it, shared the keys of
\* mongo_query whose value is the caller's own object
QueryStart(items) ==
    [exc |-> "none", mq |-> VDict(<<>>), merge |-> VDict(<<>>),
     raw |-> RawIn(items), shared |-> {}]

\* lines 110-127: the compiled pair c merged into mongo_query (mq), or set
\* aside in merge_query (merge).  Line 111 puts a new object under the
\* key, line 114 updates the mapping under the key in place (the caller's,
\* when the key is shared), lines 115-124 put a new SON under the key
MergePair(acc, c) ==
    IF c.op = "None" \/ ~DictHas(acc.mq, c.key)
    THEN [acc EXCEPT !.mq = DictPut(acc.mq, c.key, c.value),
                     !.shared = acc.shared \ {c.key}]
    ELSE IF IsDict(DictGet(acc.mq, c.key))
         THEN IF ~IsDict(c.value)
              THEN [acc EXCEPT !.exc = DictUpdateError(c.value)]
              ELSE LET merged == DictUpdate(DictGet(acc.mq, c.key), c.value)
                   IN  [acc EXCEPT
                          !.mq = DictPut(acc.mq, c.key, MaxDistanceLast(merged)),
                          !.raw = IF c.key \in acc.shared
                                  THEN DictPut(acc.raw, c.key, merged) ELSE acc.raw,
                          !.shared = IF DictHas(merged, K("$maxDistance"))
                                     THEN acc.shared \ {c.key} ELSE acc.shared]
         ELSE [acc EXCEPT !.merge =
                  DictPut(acc.merge, c.key,
                      VList(Append(IF DictHas(acc.merge, c.key)
                                   THEN Items(DictGet(acc.merge, c.key)) ELSE <<>>,
                                   c.value)))]

\* one pass of the loop for a pair that compiled to c: its exception
\* leaves the loop, its value is merged
QueryStep(acc, c) ==
    IF c.exc # "none" THEN [acc EXCEPT !.exc = c.exc] ELSE MergePair(acc, c)

\* lines 35-127: the loop over sorted(query.items()); items holds the pairs
\* <<key, value>> in sorted order, the loop stops at the first exception.
\* mongo_query.update(value) (line 37) copies no value: the values of
\* __raw__ themselves stand under their keys in mongo_query
RECURSIVE QueryLoop(_, _, _, _)
QueryLoop(doc_cls, items, i, acc) ==
    IF i > Len(items) \/ acc.exc # "none" THEN acc
    ELSE IF IsRaw(items[i][1])
         THEN QueryLoop(doc_cls, items, i + 1,
                        [acc EXCEPT !.mq = DictUpdate(acc.mq, items[i][2]),
                                    !.shared = DictKeys(items[i][2])])
         ELSE QueryLoop(doc_cls, items, i + 1,
                        QueryStep(acc, QueryPair(doc_cls, items[i][1], items[i][2])))

\* FoldKey with the value left under k put in front of the deferred ones
FoldKey_prior_first(mq, k, deferred) ==
    LET v == <<DictGet(mq, k)>> \o deferred
        value == VList([j \in 1..Len(v) |-> VDict(<< <<k, v[j]>> >>)])
        rest == DictDel(mq, k)
    IN  IF DictHas(rest, K("$and"))
        THEN DictPut(rest, K("$and"),
                     VList(Append(Items(DictGet(rest, K("$and"))), value)))
        ELSE DictPut(rest, K("$and"), value)

\* lines 131-138, for one key k of merge_query: the value left under k is
\* appended to the deferred ones, k is deleted, and the one-key documents
\* go to $and
FoldKey(mq, k, deferred) ==
    LET v == Append(deferred, DictGet(mq, k))
        value == VList([j \in 1..Len(v) |-> VDict(<< <<k, v[j]>> >>)])
        rest == DictDel(mq, k)
    IN  IF DictHas(rest, K("$and"))
        THEN DictPut(rest, K("$and"),
                     VList(Append(Items(DictGet(rest, K("$and"))), value)))
        ELSE DictPut(rest, K("$and"), value)

\* lines 130-138: the loop over merge_query
RECURSIVE QueryFold(_, _, _)
QueryFold(mq, merge, i) ==
    IF i > Len(Items(merge)) THEN mq
    ELSE QueryFold(FoldKey(mq, Items(merge)[i][1], Items(Items(merge)[i][2])),
                   merge, i + 1)

\* the place of a key among the keys in the order Python sorts strings
RankOf(key) == CHOOSE r \in 1..Len(QueryKeys) : QueryKeys[r] = key

\* query.items(): the pairs as the mapping of the keyword arguments yields
\* them, an order that owes nothing to the keys (here the descending one)
RECURSIVE ItemsFrom(_, _)
ItemsFrom(kwargs, r) ==
    IF r < 1 THEN <<>>
    ELSE (IF r \in DOMAIN kwargs THEN << <<QueryKeys[r], kwargs[r]>> >> ELSE <<>>)
            \o ItemsFrom(kwargs, r - 1)

QueryItems(kwargs) == ItemsFrom(kwargs, Len(QueryKeys))

\* sorted() leaving the pairs in the order it was given them
Sorted_caller_order(items) == items

\* sorted(): the pairs in ascending order of their keys, each pair put in
\* its place among those sorted before it
RECURSIVE InsertSorted(_, _)
InsertSorted(sorted, item) ==
    IF sorted = <<>> THEN <<item>>
    ELSE IF RankOf(item[1]) < RankOf(sorted[1][1]) THEN <<item>> \o sorted
    ELSE <<sorted[1]>> \o InsertSorted(Tail(sorted), item)

RECURSIVE SortedFrom(_, _)
SortedFrom(items, n) ==
    IF n = 0 THEN <<>> ELSE InsertSorted(SortedFrom(items, n - 1), items[n])

Sorted(items) == SortedFrom(items, Len(items))

\* sorted(query.items())
SortedItems(kwargs) == Sorted(QueryItems(kwargs))

\* query(_doc_cls, **query) on the pairs in the caller's order: the
\* exception raised ("none" when it returns), the document returned, and
\* the caller's __raw__ mapping as the call leaves it (line 136 appends to
\* the list under $and in place, which is the caller's list when $and came
\* from __raw__)
QueryResult(acc, doc) ==
    IF acc.exc # "none" THEN [exc |-> acc.exc, doc |-> VNone, raw |-> acc.raw]
    ELSE [exc |-> "none", doc |-> doc,
          raw |-> IF K("$and") \in acc.shared /\ Items(acc.merge) # <<>>
                  THEN DictPut(acc.raw, K("$and"), DictGet(doc, K("$and")))
                  ELSE acc.raw]
QueryFolded(acc) ==
    QueryResult(acc, IF acc.exc # "none" THEN VNone
                     ELSE QueryFold(acc.mq, acc.merge, 1))
QueryRun(doc_cls, items) ==
    QueryFolded(QueryLoop(doc_cls, Sorted(items), 1, QueryStart(items)))

\* what the caller is returned: the exception and the document
Outcome(r) == [exc |-> r.exc, doc |-> r.doc]

\* query(_doc_cls, **kwargs): the exception raised ("none" when it
\* returns) and the document returned
QueryOf(doc_cls, items) == Outcome(QueryRun(doc_cls, items))

Query(doc_cls, kwargs) == QueryOf(doc_cls, QueryItems(kwargs))

-----------------------------------------------------------------------------
(* transform.py: update() *)

UPDATE_OPERATORS ==
    {"set", "unset", "inc", "dec", "pop", "push", "pull", "pull_all",
     "add_to_set", "set_on_insert"}

\* lines 156-168: the Pythonic operator name as the storage names it
CanonicalOp(op) ==
    CASE op = "pull_all" -> "pullAll"
      [] op = "dec" -> "inc"
      [] op = "add_to_set" -> "addToSet"
      [] op = "set_on_insert" -> "setOnInsert"
      [] OTHER -> op

\* '$' + op, for the canonical update operators
DollarOp(op) ==
    CASE op = "set" -> "$set" [] op = "unset" -> "$unset" [] op = "inc" -> "$inc"
      [] op = "pop" -> "$pop" [] op = "push" -> "$push" [] op = "pull" -> "$pull"
      [] op = "pullAll" -> "$pullAll" [] op = "addToSet" -> "$addToSet"
      [] op = "setOnInsert" -> "$setOnInsert"
      [] op = "dec" -> "$dec" [] op = "pull_all" -> "$pull_all"
      [] op = "add_to_set" -> "$add_to_set"
      [] op = "set_on_insert" -> "$set_on_insert"
      [] OTHER -> "$?"

\* dec with the sign of every value flipped
DecValue_negate(value) == VInt(0 - value[2])

\* lines 163-164: if value > 0: value = -value
DecValue(value) == IF value[2] > 0 THEN VInt(0 - value[2]) ELSE value

\* lines 151-172: the leading update operator and the trailing comparison
\* operator popped off the key
ParseUpdateKey(key, value) ==
    LET hasop == key[1] \in UPDATE_OPERATORS
        op == IF hasop THEN CanonicalOp(key[1]) ELSE "None"
        v == IF hasop /\ key[1] = "dec" THEN DecValue(value) ELSE value
        p1 == IF hasop THEN Tail(key) ELSE key
    IN  IF Len(p1) = 0
        THEN [exc |-> "IndexError", op |-> op, match |-> "None", parts |-> <<>>,
              value |-> v]
        ELSE LET hasmatch == Last(p1) \in COMPARISON_OPERATORS
             IN  [exc |-> "none", op |-> op,
                  match |-> IF hasmatch THEN Last(p1) ELSE "None",
                  parts |-> IF hasmatch THEN Front(p1) ELSE p1,
                  value |-> v]

\* isinstance(value, (list, tuple, set))
IsSequence(v) == IsList(v) \/ IsTuple(v) \/ IsSet(v)

\* [field.prepare_query_value(op, v) for v in value]
PrepareEach(field, op, value) ==
    IF ~(IsSequence(value) \/ IsStr(value) \/ IsDict(value))
    THEN [exc |-> "TypeError", value |-> VNone]
    ELSE LET it == IF IsSequence(value) THEN Items(value) ELSE IterItems(value)
         IN  [exc |-> "none",
              value |-> VList([i \in 1..Len(it) |-> PrepareQueryValue(field, op, it[i])])]

\* lines 199-208: the value coerced through the terminal field
CoerceUpdateValue(field, op, value) ==
    IF op \in {"None", "set", "push", "pull"}
    THEN IF Required(field) \/ value # VNone
         THEN Plain(PrepareQueryValue(field, op, value))
         ELSE Plain(value)
    ELSE IF op \in {"pushAll", "pullAll"} THEN PrepareEach(field, op, value)
    ELSE IF op = "addToSet"
         THEN IF IsSequence(value) THEN PrepareEach(field, op, value)
              ELSE IF Required(field) \/ value # VNone
                   THEN Plain(PrepareQueryValue(field, op, value))
                   ELSE Plain(value)
    ELSE Plain(value)

\* lines 183-192: the storage name of every segment, S turned to $
UpdatePart(fl) ==
    IF IsStrField(fl) THEN (IF fl.name = "S" THEN "$" ELSE fl.name) ELSE fl.db_field

\* the nesting with the first segment innermost
NestPull_inverted(parts, value) ==
    LET RECURSIVE N(_, _)
        N(i, v) == IF i > Len(parts) THEN v ELSE N(i + 1, Wrap1(parts[i], v))
    IN  N(1, value)

\* lines 227-229: parts.reverse(); for key in parts: value = {key: value}
NestPull(parts, value) ==
    LET RECURSIVE N(_, _)
        N(i, v) == IF i = 0 THEN v ELSE N(i - 1, Wrap1(parts[i], v))
    IN  N(Len(parts), value)

\* lines 220-233 with pullAll nested as pull is, at any depth
UpdateValue_any_depth(op, parts, value) ==
    IF op \in {"pull", "pullAll"} /\ Len(parts) > 1
    THEN Plain(NestPull(parts, value))
    ELSE IF op = "addToSet" /\ IsList(value)
         THEN Plain(VDict(<< <<parts, Wrap1("$each", value)>> >>))
         ELSE Plain(VDict(<< <<parts, value>> >>))

\* lines 220-233: the document {key: value} of the pair, op its canonical
\* operator and parts the segments of its key
UpdateValue(op, parts, value) ==
    IF op \in {"pull", "pullAll"} /\ Len(parts) > 1
    THEN IF op = "pullAll" THEN [exc |-> "InvalidQueryError", value |-> VNone]
         ELSE Plain(NestPull(parts, value))
    ELSE IF op = "addToSet" /\ IsList(value)
         THEN Plain(VDict(<< <<parts, Wrap1("$each", value)>> >>))
         ELSE Plain(VDict(<< <<parts, value>> >>))

UpdateRaised(e) == [exc |-> e, op |-> "None", value |-> VNone]

\* update() with a key of no operation let through
RequireOp_lenient(op) == "none"

\* lines 216-218: if not op: raise InvalidQueryError
RequireOp(op) == IF op = "None" THEN "InvalidQueryError" ELSE "none"

\* lines 151-234: one pair of the call compiled to its operator and the
\* document to put under it
UpdatePair(doc_cls, key, value) ==
    LET p == ParseUpdateKey(key, value)
    IN  IF p.exc # "none" THEN UpdateRaised(p.exc)
        ELSE LET lk == LookupField(p.parts)
             IN  IF doc_cls /\ ~lk.ok THEN UpdateRaised(LookupRaises)
                 ELSE IF doc_cls /\ Len(CleanedFields(lk.fields)) = 0
                      THEN UpdateRaised("IndexError")
                 ELSE LET parts == IF doc_cls
                                   THEN [i \in 1..Len(lk.fields) |-> UpdatePart(lk.fields[i])]
                                   ELSE p.parts
                          c == IF doc_cls
                               THEN CoerceUpdateValue(Last(CleanedFields(lk.fields)),
                                                      p.op, p.value)
                               ELSE Plain(p.value)
                      IN  IF c.exc # "none" THEN UpdateRaised(c.exc)
                          ELSE IF RequireOp(p.op) # "none" THEN UpdateRaised(RequireOp(p.op))
                          ELSE LET m == IF p.match # "None"
                                        THEN Wrap1(Dollar(p.match), c.value)
                                        ELSE c.value
                                   u == UpdateValue(p.op, parts, m)
                               IN  IF u.exc # "none" THEN UpdateRaised(u.exc)
                                   ELSE [exc |-> "none", op |-> p.op, value |-> u.value]

\* MergeUpdate with the pair's document replacing the one that is there
MergeUpdate_overwrite(mu, c) == DictPut(mu, K(DollarOp(c.op)), c.value)

\* lines 234-239: the pair's document put under its operator, or merged
\* into the document that is there
MergeUpdate(mu, c) ==
    LET key == K(DollarOp(c.op))
    IN  IF ~DictHas(mu, key) THEN DictPut(mu, key, c.value)
        ELSE IF IsDict(DictGet(mu, key))
             THEN DictPut(mu, key, DictUpdate(DictGet(mu, key), c.value))
             ELSE mu

\* line 145: mongo_update is empty; raw and shared as for query()
UpdateStart(items) ==
    [exc |-> "none", mu |-> VDict(<<>>), raw |-> RawIn(items), shared |-> {}]

\* one pass of the loop for a pair that compiled to c: its exception
\* leaves the loop, its document is merged under "$"+op.  Line 237 updates
\* the operator document that is there in place: the caller's, when the
\* operator is shared
UpdateStep(acc, c) ==
    IF c.exc # "none" THEN [acc EXCEPT !.exc = c.exc]
    ELSE LET key == K(DollarOp(c.op))
         IN  [acc EXCEPT
                !.mu = MergeUpdate(acc.mu, c),
                !.raw = IF /\ key \in acc.shared
                           /\ DictHas(acc.mu, key)
                           /\ IsDict(DictGet(acc.mu, key))
                        THEN DictPut(acc.raw, key,
                                DictUpdate(DictGet(acc.mu, key), c.value))
                        ELSE acc.raw]

\* lines 147-239: the loop over update.items(); it stops at the first
\* exception.  mongo_update.update(value) (line 149) puts the operator
\* documents of __raw__ themselves into mongo_update
RECURSIVE UpdateLoop(_, _, _, _)
UpdateLoop(doc_cls, items, i, acc) ==
    IF i > Len(items) \/ acc.exc # "none" THEN acc
    ELSE IF IsRaw(items[i][1])
         THEN UpdateLoop(doc_cls, items, i + 1,
                         [acc EXCEPT !.mu = DictUpdate(acc.mu, items[i][2]),
                                     !.shared = DictKeys(items[i][2])])
         ELSE UpdateLoop(doc_cls, items, i + 1,
                         UpdateStep(acc, UpdatePair(doc_cls, items[i][1], items[i][2])))

\* update(_doc_cls, **update) on the pairs in the caller's order: the
\* exception raised ("none" when it returns), the document returned, and
\* the caller's __raw__ mapping as the call leaves it
UpdateResult(acc) ==
    [exc |-> acc.exc,
     doc |-> IF acc.exc # "none" THEN VNone ELSE acc.mu,
     raw |-> acc.raw]
UpdateRun(doc_cls, items) ==
    UpdateResult(UpdateLoop(doc_cls, items, 1, UpdateStart(items)))

\* update(_doc_cls, **kwargs): the exception raised ("none" when it
\* returns) and the document returned
Update(doc_cls, kwargs) == Outcome(UpdateRun(doc_cls, kwargs))

-----------------------------------------------------------------------------
(* The calls of query() the model makes *)

MaxPairs == 3

RawDocs ==
    { VDict(<< <<K("f"), VDict(<< <<K("$gt"), VInt(1)>> >>)>> >>),
      VDict(<< <<K("f"), VInt(2)>> >>),
      VDict(<< <<K("$and"), VList(<< VDict(<< <<K("g"), VInt(1)>> >>) >>)>> >>) }

Point == VList(<<VInt(1), VInt(2)>>)

\* the values a pair of the given key is called with
QueryValues(key) ==
    IF IsRaw(key) THEN RawDocs
    ELSE LET op == ParseKey(key).op
         IN  IF op \in {"in", "nin", "all"} THEN {VList(<<VInt(1), VInt(2)>>)}
             ELSE IF op \in STRING_OPERATORS THEN {VStr("a")}
             ELSE IF op \in GEO_OPERATORS
                  THEN {Point, VList(<<>>), VInt(1), VList(<<Point, Point>>)}
             ELSE {VInt(1), VInt(2)}

\* the calls with the pairs S (ranks of keys), every pair with one of the
\* values of its key
CallsOf(S) ==
    {kw \in [S -> UNION {QueryValues(QueryKeys[r]) : r \in S}] :
        \A r \in S : kw[r] \in QueryValues(QueryKeys[r])}

\* the values _infer_geometry is called with: lists nested one to three
\* levels deep, of numbers and of strings, empty lists, a tuple, a set, a
\* number and mappings with and without the keys of a geometry
Geometries ==
    { Point, VList(<<Point, Point>>), VList(<<VList(<<Point, Point>>)>>),
      VList(<<>>), VList(<<VList(<<>>)>>), VList(<<VStr("a")>>),
      VTuple(<<VInt(1), VInt(2)>>), VSet(<<VInt(1)>>), VInt(1),
      VDict(<< <<K("$geometry"), VInt(1)>> >>),
      VDict(<< <<K("type"), VStr("P")>>, <<K("coordinates"), Point>> >>),
      VDict(<< <<K("type"), VStr("P")>> >>) }

\* the geo operators the calls of several pairs on one field are made of
GeoLoopKeys ==
    { <<"loc", "geo_within">>, <<"loc", "max_distance">>, <<"loc", "near">>,
      <<"pt", "max_distance">>, <<"pt", "near">>, <<"pt", "within_distance">> }

\* a call has one pair of any key, or up to MaxPairs pairs of the LoopKeys,
\* or up to MaxPairs pairs of the GeoLoopKeys, or is loc__geo_within with
\* one of the Geometries
QueryCalls ==
    {(RankOf(<<"loc", "geo_within">>) :> v) : v \in Geometries} \cup
    UNION {CallsOf(S) :
           S \in {{r} : r \in 1..Len(QueryKeys)}
                \cup {S \in SUBSET {r \in 1..Len(QueryKeys) : QueryKeys[r] \in LoopKeys} :
                        Cardinality(S) >= 1 /\ Cardinality(S) <= MaxPairs}
                \cup {S \in SUBSET {r \in 1..Len(QueryKeys) : QueryKeys[r] \in GeoLoopKeys} :
                        Cardinality(S) >= 1 /\ Cardinality(S) <= MaxPairs}}

\* the document instance as Doc() constructs it: not persisted, no stored
\* data, the identifier field present and None, nothing dirty
NoData == [k \in {} |-> VNone]
NewDocument ==
    /\ created = FALSE
    /\ db_data = NoData
    /\ internal_data = [val |-> [k \in {"id"} |-> VNone], dirty |-> {}]
    /\ store = [present |-> FALSE, doc |-> NoData]
    /\ d_op = [name |-> "init", path |-> <<>>, call |-> "none", raised |-> "none"]

\* update() is not called
NoUpdate ==
    /\ u_pc = "idle"
    /\ u_doc_cls = FALSE
    /\ u_kwargs = <<>>
    /\ u_ret = [exc |-> "none", doc |-> VNone]
    /\ u_sent = VNone
    /\ u_raw = VNone

\* query() is not called
NoQuery ==
    /\ q_pc = "idle"
    /\ q_doc_cls = FALSE
    /\ q_kwargs = NoData
    /\ q_ret = [exc |-> "none", doc |-> VNone]
    /\ q_sent = VNone
    /\ q_raw = VNone

\* delete() is not called on a self-referencing collection
NoCascade ==
    /\ c_pc = "idle"
    /\ c_docs = [parent |-> <<>>, target |-> 0]
    /\ c_coll = {}
    /\ c_stack = <<>>
    /\ c_removed = <<>>

\* the mapping the caller passes as __raw__
QueryRaw(kwargs) == RawIn(QueryItems(kwargs))

QInit ==
    /\ NewDocument
    /\ NoUpdate
    /\ NoCascade
    /\ q_pc = "call"
    /\ q_doc_cls \in BOOLEAN
    /\ q_kwargs \in QueryCalls
    /\ q_ret = [exc |-> "none", doc |-> VNone]
    /\ q_sent = VNone
    /\ q_raw = QueryRaw(q_kwargs)

\* the call is over: r is what it returned or raised and what it left of
\* the caller's __raw__ mapping
QueryReturns(r) == q_ret' = Outcome(r) /\ q_raw' = r.raw

\* the compiler is entered: query(_doc_cls, **kwargs) returns or raises
CallQuery ==
    /\ q_pc = "call"
    /\ QueryReturns(QueryRun(q_doc_cls, QueryItems(q_kwargs)))
    /\ q_pc' = "done"
    /\ UNCHANGED <<q_doc_cls, q_kwargs, q_sent>>
    /\ UNCHANGED <<uvars, dvars, cvars>>

\* the caller hands the compiled document to the storage collaborator; an
\* exception raised by query() has left the caller before this point
Find ==
    /\ q_pc = "done"
    /\ q_ret.exc = "none"
    /\ q_sent' = q_ret.doc
    /\ q_pc' = "sent"
    /\ UNCHANGED <<q_doc_cls, q_kwargs, q_ret, q_raw>>
    /\ UNCHANGED <<uvars, dvars, cvars>>

QNext == CallQuery \/ Find

QuerySpec == QInit /\ [][QNext]_vars

-----------------------------------------------------------------------------
(* The calls of update() the model makes *)

MaxUpdates == 2

\* the keyword names a call of update() may use, each as key.split('__')
UpdateKeys ==
    { <<"__raw__">>,
      <<"f">>,
      <<"foo", "f">>,
      <<"set">>,
      <<"set", "f">>,
      <<"set", "zz">>,
      <<"set", "author", "name">>,
      <<"set", "comments", "0", "votes">>,
      <<"unset", "f">>,
      <<"inc", "f">>,
      <<"inc", "comments", "S", "votes">>,
      <<"dec", "f">>,
      <<"pop", "f">>,
      <<"push", "f">>,
      <<"pull", "f">>,
      <<"pull", "comments", "vote">>,
      <<"pull", "comments", "vote", "lt">>,
      <<"pull", "posts", "comments", "name">>,
      <<"pull_all", "tags">>,
      <<"pull_all", "comments", "vote">>,
      <<"add_to_set", "f">>,
      <<"set_on_insert", "f">> }

\* the keys the calls of several pairs are made of
UpdateLoopKeys ==
    { <<"__raw__">>,
      <<"f">>,
      <<"set", "f">>,
      <<"set", "zz">>,
      <<"inc", "f">>,
      <<"dec", "f">>,
      <<"pull", "comments", "vote">>,
      <<"pull_all", "comments", "vote">>,
      <<"add_to_set", "f">> }

RawUpdates ==
    { VDict(<< <<K("$set"), VDict(<< <<K("a"), VInt(1)>> >>)>> >>),
      VDict(<< <<K("$inc"), VDict(<< <<K("f"), VInt(1)>> >>)>> >>) }

\* the values a pair of the given key is called with
UpdateValues(key) ==
    IF IsRaw(key) THEN RawUpdates
    ELSE IF key[1] = "dec" THEN {VInt(0 - 1), VInt(0), VInt(1), VInt(2)}
    ELSE IF key[1] = "inc" THEN {VInt(0 - 1), VInt(1)}
    ELSE IF key[1] = "add_to_set"
         THEN {VList(<<VInt(1), VInt(2)>>), VTuple(<<VInt(1), VInt(2)>>),
               VSet(<<VInt(1)>>), VInt(1), VNone}
    ELSE IF key[1] = "pull_all"
         THEN {VList(<<VStr("a"), VStr("b")>>), VList(<<VInt(1)>>)}
    ELSE {VInt(1)}

\* the sequences of at most n pairs of the keys ks, no key twice
RECURSIVE PairSeqs(_, _)
PairSeqs(ks, n) ==
    IF n = 0 THEN {<<>>}
    ELSE {<<>>} \cup
         UNION {{<< <<k, v>> >> \o rest :
                    rest \in PairSeqs(ks \ {k}, n - 1), v \in UpdateValues(k)} :
                k \in ks}

\* a call has one pair of any key, or up to MaxUpdates pairs of the
\* UpdateLoopKeys in any order
UpdateCalls ==
    UNION {{<< <<k, v>> >> : v \in UpdateValues(k)} : k \in UpdateKeys}
        \cup (PairSeqs(UpdateLoopKeys, MaxUpdates) \ {<<>>})

\* the mapping the caller passes as __raw__
UpdateRaw(kwargs) == RawIn(kwargs)

UInit ==
    /\ NewDocument
    /\ NoQuery
    /\ NoCascade
    /\ u_pc = "call"
    /\ u_doc_cls \in BOOLEAN
    /\ u_kwargs \in UpdateCalls
    /\ u_ret = [exc |-> "none", doc |-> VNone]
    /\ u_sent = VNone
    /\ u_raw = UpdateRaw(u_kwargs)

UpdateReturns(r) == u_ret' = Outcome(r) /\ u_raw' = r.raw

\* the compiler is entered: update(_doc_cls, **kwargs) returns or raises
CallUpdate ==
    /\ u_pc = "call"
    /\ UpdateReturns(UpdateRun(u_doc_cls, u_kwargs))
    /\ u_pc' = "done"
    /\ UNCHANGED <<u_doc_cls, u_kwargs, u_sent>>
    /\ UNCHANGED <<qvars, dvars, cvars>>

\* the caller hands the compiled update document to the storage
\* collaborator; an exception raised by update() has left the caller
\* before this point
SendUpdate ==
    /\ u_pc = "done"
    /\ u_ret.exc = "none"
    /\ u_sent' = u_ret.doc
    /\ u_pc' = "sent"
    /\ UNCHANGED <<u_doc_cls, u_kwargs, u_ret, u_raw>>
    /\ UNCHANGED <<qvars, dvars, cvars>>

UNext == CallUpdate \/ SendUpdate

UpdateSpec == UInit /\ [][UNext]_vars

\* query() and update() together: a behaviour is one call of either
TInit == QInit \/ UInit

TNext == QNext \/ UNext

TransformSpec == TInit /\ [][TNext]_vars

-----------------------------------------------------------------------------
(* Properties of query() *)

Returned == q_pc \in {"done", "sent"}

\* the ranks of the call's pairs other than __raw__, and what each pair
\* compiles to on its own
PairRanks == {r \in DOMAIN q_kwargs : ~IsRaw(QueryKeys[r])}
PairOf(r) == QueryPair(q_doc_cls, QueryKeys[r], q_kwargs[r])
AllPairsCompile == \A r \in PairRanks : PairOf(r).exc = "none"

\* the mapping passed as __raw__ (empty when the call has none)
RawOf == IF RankOf(<<"__raw__">>) \in DOMAIN q_kwargs
         THEN q_kwargs[RankOf(<<"__raw__">>)] ELSE VDict(<<>>)

\* the elements of the returned $and array, and the elements of the lists
\* nested in it
AndElements ==
    IF q_ret.exc = "none" /\ DictHas(q_ret.doc, K("$and"))
    THEN LET a == Items(DictGet(q_ret.doc, K("$and")))
         IN  {a[i] : i \in 1..Len(a)}
    ELSE {}
AndElementsDeep ==
    AndElements \cup
    UNION {{Items(e)[i] : i \in 1..Len(Items(e))} : e \in {x \in AndElements : IsList(x)}}

RetainedUnderAnd(k, v) == VDict(<< <<k, v>> >>) \in AndElementsDeep

\* C1 (as claimed): when two constraints of one call fall on the same
\* storage key, one a non-mapping value (a bare equality or a string
\* operator's pattern) and the other an operator document, the call returns
\* and both are one-key documents under $and with the key gone from the
\* top level, whichever of the two was processed first, a __raw__ entry
\* included.
C1_BothConstraintsRetained ==
    (Returned /\ AllPairsCompile) =>
        /\ \A r1, r2 \in PairRanks :
              (/\ PairOf(r1).key = PairOf(r2).key
               /\ ~IsDict(PairOf(r1).value)
               /\ IsDict(PairOf(r2).value))
              => /\ q_ret.exc = "none"
                 /\ ~DictHas(q_ret.doc, PairOf(r1).key)
                 /\ RetainedUnderAnd(PairOf(r1).key, PairOf(r1).value)
                 /\ RetainedUnderAnd(PairOf(r2).key, PairOf(r2).value)
        /\ \A r \in PairRanks :
              (/\ DictHas(RawOf, PairOf(r).key)
               /\ IsDict(DictGet(RawOf, PairOf(r).key)) # IsDict(PairOf(r).value))
              => /\ q_ret.exc = "none"
                 /\ ~DictHas(q_ret.doc, PairOf(r).key)
                 /\ RetainedUnderAnd(PairOf(r).key, PairOf(r).value)
                 /\ RetainedUnderAnd(PairOf(r).key, DictGet(RawOf, PairOf(r).key))

OneKey(k, v) == VDict(<< <<k, v>> >>)

\* the call is exactly f=v, f__in=l
IsBareAndIn ==
    DOMAIN q_kwargs = {RankOf(<<"f">>), RankOf(<<"f", "in">>)}

\* the call is f=v together with operator pairs on f
FOperatorRanks ==
    {RankOf(<<"f", "gt">>), RankOf(<<"f", "in">>), RankOf(<<"f", "lt">>)}
IsBareAndOperators ==
    /\ RankOf(<<"f">>) \in DOMAIN q_kwargs
    /\ DOMAIN q_kwargs \ {RankOf(<<"f">>)} # {}
    /\ DOMAIN q_kwargs \ {RankOf(<<"f">>)} \subseteq FOperatorRanks

\* the operator pairs of the call in processing order, each as the one-key
\* document of its compiled value
DeferredFragments ==
    LET ops == SortedItems([r \in DOMAIN q_kwargs \ {RankOf(<<"f">>)} |-> q_kwargs[r]])
    IN  [i \in 1..Len(ops) |->
            OneKey(K("f"), QueryPair(q_doc_cls, ops[i][1], ops[i][2]).value)]

\* C2 (as claimed): query(f=A, f__in=[A,B]) returns {$and: [{f: A},
\* {f: {$in: [A,B]}}]}, the bare equality first.
C2_BareEqualityFirst ==
    (Returned /\ ~q_doc_cls /\ IsBareAndIn) =>
        q_ret = [exc |-> "none",
                 doc |-> OneKey(K("$and"),
                    VList(<< OneKey(K("f"), q_kwargs[RankOf(<<"f">>)]),
                             OneKey(K("f"), OneKey(K("$in"),
                                              q_kwargs[RankOf(<<"f", "in">>)])) >>))]

\* C2 (amended): query(f=A, f__in=[A,B]) returns {$and: [{f: {$in: [A,B]}},
\* {f: A}]} and nothing else: the deferred operator fragments of the key in
\* processing order first, the prior bare equality fragment last.
C2_BareEqualityLast ==
    /\ (Returned /\ ~q_doc_cls /\ IsBareAndIn) =>
          q_ret = [exc |-> "none",
                   doc |-> OneKey(K("$and"),
                      VList(<< OneKey(K("f"), OneKey(K("$in"),
                                                q_kwargs[RankOf(<<"f", "in">>)])),
                               OneKey(K("f"), q_kwargs[RankOf(<<"f">>)]) >>))]
    /\ (Returned /\ IsBareAndOperators) =>
          q_ret = [exc |-> "none",
                   doc |-> OneKey(K("$and"),
                      VList(Append(DeferredFragments,
                                   OneKey(K("f"), PairOf(RankOf(<<"f">>)).value))))]

C2_Witness ==
    /\ q_pc = "done" /\ ~q_doc_cls /\ IsBareAndIn
    /\ q_kwargs[RankOf(<<"f">>)] = VInt(1)
    /\ DictHas(q_ret.doc, K("$and"))

\* the storage keys the call constrains, and the constraints on one of them
ConstrainedKeys == {PairOf(r).key : r \in PairRanks} \cup DictKeys(RawOf)
PairsOn(k) == {r \in PairRanks : PairOf(r).key = k}
OperatorOnly(k) ==
    /\ \A r \in PairsOn(k) : IsDict(PairOf(r).value)
    /\ DictHas(RawOf, k) => IsDict(DictGet(RawOf, k))

\* the operator keys the constraints on k carry, and the value the last
\* of them in processing order gives to operator key o
OperatorKeys(k) ==
    UNION {DictKeys(PairOf(r).value) : r \in PairsOn(k)}
        \cup (IF DictHas(RawOf, k) THEN DictKeys(DictGet(RawOf, k)) ELSE {})
LastValue(k, o) ==
    LET rs == {r \in PairsOn(k) : DictHas(PairOf(r).value, o)}
    IN  IF rs = {} THEN DictGet(DictGet(RawOf, k), o)
        ELSE DictGet(PairOf(CHOOSE r \in rs : \A r2 \in rs : r2 <= r).value, o)

\* C3: when every constraint of a call on a storage key is an operator
\* document (no bare equality or other non-mapping value on it), the call
\* returns under that key one operator document holding every operator of
\* those pairs, each with the value of the pair last in key-sorted order;
\* f__gt=1, f__lt=2 gives {f: {$gt: 1, $lt: 2}}, and f=v alone gives {f: v}.
C3_OperatorsMerged ==
    (Returned /\ AllPairsCompile) =>
        /\ (\A k \in ConstrainedKeys : OperatorOnly(k)) => q_ret.exc = "none"
        /\ \A k \in ConstrainedKeys :
              (OperatorOnly(k) /\ PairsOn(k) # {} /\ q_ret.exc = "none") =>
                 /\ DictHas(q_ret.doc, k)
                 /\ IsDict(DictGet(q_ret.doc, k))
                 /\ DictKeys(DictGet(q_ret.doc, k)) = OperatorKeys(k)
                 /\ Len(Items(DictGet(q_ret.doc, k))) = Cardinality(OperatorKeys(k))
                 /\ \A o \in OperatorKeys(k) :
                       DictGet(DictGet(q_ret.doc, k), o) = LastValue(k, o)
        /\ (~q_doc_cls /\ DOMAIN q_kwargs = {RankOf(<<"f", "gt">>), RankOf(<<"f", "lt">>)}) =>
              q_ret.doc = OneKey(K("f"),
                  VDict(<< <<K("$gt"), q_kwargs[RankOf(<<"f", "gt">>)]>>,
                           <<K("$lt"), q_kwargs[RankOf(<<"f", "lt">>)]>> >>))
        /\ (~q_doc_cls /\ DOMAIN q_kwargs = {RankOf(<<"f">>)}) =>
              q_ret.doc = OneKey(K("f"), q_kwargs[RankOf(<<"f">>)])

\* id__gt=1, id__lt=1, pk__gt=2 under the schema: three operator pairs on
\* _id, two of them with operator $gt
C3_Witness ==
    /\ q_pc = "done" /\ q_doc_cls
    /\ DOMAIN q_kwargs =
          {RankOf(<<"id", "gt">>), RankOf(<<"id", "lt">>), RankOf(<<"pk", "gt">>)}
    /\ q_kwargs[RankOf(<<"id", "gt">>)] = VInt(1)
    /\ q_kwargs[RankOf(<<"pk", "gt">>)] = VInt(2)
    /\ q_ret.exc = "none"
    /\ DictGet(DictGet(q_ret.doc, K("_id")), K("$gt")) = VPrep("gt", VInt(2))
    /\ DictHas(DictGet(q_ret.doc, K("_id")), K("$lt"))

\* what the spec calls a geometry: a mapping with $geometry or with type and
\* coordinates, or a sequence nested one to three levels deep
ValidGeometry(v) ==
    IF IsDict(v)
    THEN DictHas(v, K("$geometry"))
            \/ (DictHas(v, K("coordinates")) /\ DictHas(v, K("type")))
    ELSE IsList(v) /\ CanIndexDepth(v, 1)

\* a pair that cannot be compiled: a segment that is no field of the
\* schema, or a geometry operator given something that is no geometry
InvalidPair(r) ==
    LET p == ParseKey(QueryKeys[r])
    IN  \/ q_doc_cls /\ ~LookupField(p.parts).ok
        \/ /\ p.op \in {"geo_within", "geo_intersects", "near"}
           /\ q_doc_cls => Last(LookupField(p.parts).fields).geo # "2d"
           /\ ~ValidGeometry(q_kwargs[r])

\* no two pairs of the call fall on the same storage key
NoCollision ==
    \A r1, r2 \in PairRanks :
        (r1 # r2 /\ PairOf(r1).exc = "none" /\ PairOf(r2).exc = "none")
            => PairOf(r1).key # PairOf(r2).key

\* C10 (as claimed): a call with an invalid pair raises InvalidQueryError,
\* returns no document and nothing is handed to storage, wherever the
\* invalid pair stands among the valid ones.
C10_InvalidPairRaisesInvalidQueryError ==
    (Returned /\ NoCollision /\ \E r \in PairRanks : InvalidPair(r)) =>
        /\ q_ret.exc = "InvalidQueryError"
        /\ q_ret.doc = VNone
        /\ q_sent = VNone

-----------------------------------------------------------------------------
(* Properties of query() and update(): operators, paths and failures *)

\* the geo operators _geo_operator implements for a legacy 2D index, and
\* for any other index
Geo2DOperators ==
    {"within_distance", "within_spherical_distance", "within_polygon", "near",
     "near_sphere", "within_box", "max_distance"}
GeoJSONOperators ==
    {"geo_within", "geo_within_box", "geo_within_polygon", "geo_within_center",
     "geo_within_sphere", "geo_intersects", "near", "max_distance"}

\* the call is exactly one pair, of the key
IsCallOf(key) == DOMAIN q_kwargs = {RankOf(key)}

\* a pair whose operator is not implemented for its target: the trailing
\* token foo, or under the schema a geo operator the index of the field
\* does not support
Unimplemented(r) ==
    LET p == ParseKey(QueryKeys[r])
    IN  \/ Last(QueryKeys[r]) = "foo"
        \/ /\ q_doc_cls
           /\ p.op \in GEO_OPERATORS
           /\ LookupField(p.parts).ok
           /\ LET field == Last(LookupField(p.parts).fields)
              IN  p.op \notin (IF field.geo = "2d" THEN Geo2DOperators
                               ELSE GeoJSONOperators)

\* C11 (as claimed): a call of one pair whose operator is not implemented
\* for its target raises InvalidQueryError and returns no document
C11_UnimplementedOperatorRaises ==
    (Returned /\ \E r \in PairRanks : DOMAIN q_kwargs = {r} /\ Unimplemented(r)) =>
        /\ q_ret.exc = "InvalidQueryError"
        /\ q_ret.doc = VNone

URaised == u_pc \in {"done", "sent"}
UKey(i) == u_kwargs[i][1]
UValue(i) == u_kwargs[i][2]
UPairOf(i) == UpdatePair(u_doc_cls, UKey(i), UValue(i))

\* what the loop of query() has raised before it reaches the pair of rank
\* r, and the loop of update() before its i-th pair
ItemsBefore(r) ==
    SortedItems([x \in {y \in DOMAIN q_kwargs : y < r} |-> q_kwargs[x]])
QueryRaisedBefore(r) ==
    QueryLoop(q_doc_cls, ItemsBefore(r), 1, QueryStart(ItemsBefore(r))).exc
UpdateRaisedBefore(i) ==
    UpdateLoop(u_doc_cls, SubSeq(u_kwargs, 1, i - 1), 1,
               UpdateStart(SubSeq(u_kwargs, 1, i - 1))).exc

\* a key with a segment that is no field of the schema
Unresolvable(key) ==
    ParseKey(key).exc = "none" /\ ~LookupField(ParseKey(key).parts).ok
UnresolvableUpdate(key, value) ==
    /\ ParseUpdateKey(key, value).exc = "none"
    /\ ~LookupField(ParseUpdateKey(key, value).parts).ok

C13_MissingOperatorRaises ==
    URaised =>
        \A i \in 1..Len(u_kwargs) :
            (~IsRaw(UKey(i)) /\ UKey(i)[1] \notin UPDATE_OPERATORS) =>
                /\ u_ret.exc # "none"
                /\ u_ret.doc = VNone
                /\ u_sent = VNone
                /\ UpdateRaisedBefore(i) = "none" => u_ret.exc = "InvalidQueryError"

\* C13 witness: update(set__f=1, f=1) without a schema has raised
\* InvalidQueryError at its second pair
C13_Witness ==
    /\ u_pc = "done"
    /\ ~u_doc_cls
    /\ Len(u_kwargs) = 2
    /\ UKey(1) = <<"set", "f">>
    /\ UKey(2) = <<"f">>
    /\ u_ret = [exc |-> "InvalidQueryError", doc |-> VNone]

\* the operator document the i-th pair is put under, and whether no other
\* pair of the call, __raw__ included, writes that operator
Bucket(i) == K(DollarOp(UPairOf(i).op))
SoleWriter(i) ==
    \A j \in 1..Len(u_kwargs) \ {i} :
        IF IsRaw(UKey(j)) THEN ~DictHas(UValue(j), Bucket(i))
        ELSE UPairOf(j).exc = "none" => UPairOf(j).op # UPairOf(i).op
UStored(i) == DictGet(u_ret.doc, Bucket(i))
UReturnedDoc == URaised /\ u_ret.exc = "none"

\* C14: a dec pair never makes a $dec operator; dec__f=v puts under $inc
\* the document {f: w} with w = -v when v > 0 and w = v otherwise, so
\* w <= 0; dec__f=1 alone gives {$inc: {f: -1}}
C14_DecIsNegativeInc ==
    /\ UReturnedDoc => ~DictHas(u_ret.doc, K("$dec"))
    /\ UReturnedDoc =>
          \A i \in 1..Len(u_kwargs) :
              (UKey(i)[1] = "dec" /\ SoleWriter(i)) =>
                  LET v == UValue(i)[2]
                      w == IF v > 0 THEN 0 - v ELSE v
                  IN  /\ w <= 0
                      /\ DictHas(u_ret.doc, K("$inc"))
                      /\ DictGet(u_ret.doc, K("$inc")) =
                            VDict(<< <<Tail(UKey(i)), VInt(w)>> >>)
    /\ (URaised /\ u_kwargs = << <<<<"dec", "f">>, VInt(1)>> >>) =>
          u_ret = [exc |-> "none",
                   doc |-> Wrap1("$inc", VDict(<< <<K("f"), VInt(0 - 1)>> >>))]

\* C14 witness: update(dec__f=-1) has returned {$inc: {f: -1}}
C14_Witness ==
    /\ u_pc = "done"
    /\ u_kwargs = << <<<<"dec", "f">>, VInt(0 - 1)>> >>
    /\ u_ret.doc = Wrap1("$inc", VDict(<< <<K("f"), VInt(0 - 1)>> >>))

\* C15: a pull_all pair whose path has more than one segment makes the
\* call raise (InvalidQueryError unless a pair before it has raised) and
\* return nothing; pull_all__tags=[a, b] alone returns {$pullAll: {tags:
\* [a, b]}}, every element coerced by the field under a schema
C15_PullAllSingleDepth ==
    URaised =>
        \A i \in 1..Len(u_kwargs) :
            UKey(i)[1] = "pull_all" =>
                IF Len(UKey(i)) > 2
                THEN /\ u_ret.exc # "none"
                     /\ u_ret.doc = VNone
                     /\ UpdateRaisedBefore(i) = "none" => u_ret.exc = "InvalidQueryError"
                ELSE Len(u_kwargs) = 1 =>
                        u_ret = [exc |-> "none",
                                 doc |-> Wrap1("$pullAll",
                                    VDict(<< <<Tail(UKey(i)),
                                        IF u_doc_cls
                                        THEN VList([j \in 1..Len(Items(UValue(i))) |->
                                                VPrep("pullAll", Items(UValue(i))[j])])
                                        ELSE UValue(i)>> >>))]

\* C15 witness: update(pull_all__comments__vote=[1]) has raised
\* InvalidQueryError
C15_Witness ==
    /\ u_pc = "done"
    /\ Len(u_kwargs) = 1
    /\ UKey(1) = <<"pull_all", "comments", "vote">>
    /\ u_ret = [exc |-> "InvalidQueryError", doc |-> VNone]

\* {s1: {s2: ... {sn: value}}}
RECURSIVE NestedInOrder(_, _)
NestedInOrder(path, value) ==
    IF Len(path) = 0 THEN value
    ELSE VDict(<< <<K(Head(path)), NestedInOrder(Tail(path), value)>> >>)

\* C16: a pull pair with a path of several segments puts under $pull the
\* segments nested in path order, one mapping per segment and no dotted
\* key, around the value, which a trailing comparison operator wraps;
\* pull__comments__vote__lt=1 gives {$pull: {comments: {vote: {$lt: 1}}}}
C16_NestedPull ==
    /\ UReturnedDoc =>
          \A i \in 1..Len(u_kwargs) :
              (/\ UKey(i)[1] = "pull"
               /\ Len(ParseUpdateKey(UKey(i), UValue(i)).parts) > 1
               /\ SoleWriter(i)) =>
                  LET p == ParseUpdateKey(UKey(i), UValue(i))
                      base == IF u_doc_cls THEN VPrep("pull", UValue(i)) ELSE UValue(i)
                      inner == IF p.match = "None" THEN base
                               ELSE VDict(<< <<K(Dollar(p.match)), base>> >>)
                  IN  UStored(i) = NestedInOrder(p.parts, inner)
    /\ (URaised /\ ~u_doc_cls
        /\ u_kwargs = << <<<<"pull", "comments", "vote", "lt">>, VInt(1)>> >>) =>
          u_ret = [exc |-> "none",
                   doc |-> Wrap1("$pull",
                              Wrap2("comments", "vote", Wrap1("$lt", VInt(1))))]

\* C16 witness: update(pull__posts__comments__name=1) has returned the
\* three segments nested
C16_Witness ==
    /\ u_pc = "done"
    /\ ~u_doc_cls
    /\ u_kwargs = << <<<<"pull", "posts", "comments", "name">>, VInt(1)>> >>
    /\ u_ret.doc = Wrap1("$pull", Wrap1("posts", Wrap2("comments", "name", VInt(1))))

Segments(key) == {key[j] : j \in 1..Len(key)}

\* C17 (as claimed): in the document update() returns, with a schema or
\* without, the path of a key with the segment S has $ in the place of
\* every S, and no path of the document holds a segment S
C17_PositionalMarker ==
    UReturnedDoc =>
        \A i \in 1..Len(u_kwargs) :
            (~IsRaw(UKey(i)) /\ "S" \in Segments(UKey(i)) /\ SoleWriter(i)) =>
                LET parts == ParseUpdateKey(UKey(i), UValue(i)).parts
                    path == [j \in 1..Len(parts) |->
                                IF parts[j] = "S" THEN "$" ELSE parts[j]]
                IN  /\ DictHas(UStored(i), path)
                    /\ \A k \in DictKeys(UStored(i)) : "S" \notin Segments(k)

\* C18 (as claimed): add_to_set__f=v puts {f: {$each: v}} under $addToSet
\* whenever v is a list, a tuple or a set, with a schema or without, and
\* {f: v} with no $each only when v is a single value
C18_AddToSetEach ==
    UReturnedDoc =>
        \A i \in 1..Len(u_kwargs) :
            (UKey(i)[1] = "add_to_set" /\ SoleWriter(i)) =>
                LET stored == DictGet(UStored(i), Tail(UKey(i)))
                IN  IF IsSequence(UValue(i))
                    THEN IsDict(stored) /\ DictKeys(stored) = {K("$each")}
                    ELSE ~IsDict(stored)

\* the segments of a key that are field names: not an index, not the
\* negation marker, not the trailing operator
FieldSegments(key) == ParseKey(key).parts

\* the storage name of every field segment of a key
StorageNames(key) ==
    IF q_doc_cls
    THEN [j \in 1..Len(FieldSegments(key)) |->
             LookupField(FieldSegments(key)).fields[j].db_field]
    ELSE FieldSegments(key)

\* the pair of rank r is the only constraint of the call on its storage key
AloneOnKey(r) == PairsOn(PairOf(r).key) = {r} /\ ~DictHas(RawOf, PairOf(r).key)

\* C19: every numeric segment of a key is at the same index in the storage
\* path as in the key, the other segments of the path are the storage
\* names of the field segments in their order, and the operator is the
\* trailing one; posts__1__comments__0__name__startswith is the path
\* posts.1.comments.0.name with operator startswith
C19_IndicesKeepTheirPlace ==
    /\ Returned =>
          \A r \in PairRanks :
              PairOf(r).exc = "none" =>
                  LET key == QueryKeys[r]
                      path == PairOf(r).key
                  IN  /\ \A j \in 1..Len(key) :
                            IsDigit(key[j]) => (j <= Len(path) /\ path[j] = key[j])
                      /\ SelectSeq(path, LAMBDA x : ~IsDigit(x)) = StorageNames(key)
                      /\ Len(path) = Len(StorageNames(key))
                                        + Cardinality({j \in 1..Len(key) : IsDigit(key[j])})
                      /\ (q_ret.exc = "none" /\ AloneOnKey(r)) => DictHas(q_ret.doc, path)
    /\ (Returned /\ IsCallOf(<<"posts", "1", "comments", "0", "name", "startswith">>)) =>
          LET c == PairOf(RankOf(<<"posts", "1", "comments", "0", "name", "startswith">>))
          IN  /\ c.key = <<"posts", "1", "comments", "0", "name">>
              /\ c.op = "startswith"
              /\ DictKeys(q_ret.doc) = {<<"posts", "1", "comments", "0", "name">>}

\* C19 witness: query(_doc_cls=Doc, posts__1__comments__0__name__startswith=v)
\* has returned
C19_Witness ==
    /\ q_pc = "done"
    /\ q_doc_cls
    /\ IsCallOf(<<"posts", "1", "comments", "0", "name", "startswith">>)
    /\ q_ret.exc = "none"
    /\ DictHas(q_ret.doc, <<"posts", "1", "comments", "0", "name">>)

\* C20: the value stored under the key of a string operator pair is the
\* one the field's prepare_query_value(op, value) returned (the value as
\* it was passed when there is no schema, hence no field), in no
\* {$op: ...} wrapper, and {$not: that value} when the negation marker
\* precedes the operator
C20_StringOperatorsUnwrapped ==
    (Returned /\ q_ret.exc = "none") =>
        \A r \in PairRanks :
            (ParseKey(QueryKeys[r]).op \in STRING_OPERATORS /\ AloneOnKey(r)) =>
                LET p == ParseKey(QueryKeys[r])
                    prepared == IF q_doc_cls
                                THEN PrepareQueryValue(
                                        Last(LookupField(p.parts).fields), p.op, q_kwargs[r])
                                ELSE q_kwargs[r]
                    stored == DictGet(q_ret.doc, PairOf(r).key)
                IN  IF p.negate
                    THEN stored = VDict(<< <<K("$not"), prepared>> >>)
                    ELSE stored = prepared

\* C20 witness: query(_doc_cls=Doc, f__not__iexact='a') has returned
\* {f: {$not: prepare_query_value('iexact', 'a')}}
C20_Witness ==
    /\ q_pc = "done"
    /\ q_doc_cls
    /\ IsCallOf(<<"f", "not", "iexact">>)
    /\ q_ret = [exc |-> "none",
                doc |-> VDict(<< <<K("f"),
                           VDict(<< <<K("$not"), VPrep("iexact", VStr("a"))>> >>)>> >>)]

-----------------------------------------------------------------------------
(* The document class of the instance, and the field collaborator *)

\* class Doc(Document): string_field, dict_field and a, the list of
\* embedded documents with field b; every field has its own db_field
DocFields == {"id", "string_field", "dict_field", "a"}
DbField(seg) ==
    CASE seg = "id" -> "_id"
      [] seg = "string_field" -> "db_string_field"
      [] seg = "dict_field" -> "db_dict_field"
      [] seg = "a" -> "db_a"
      [] seg = "b" -> "db_b"
      [] OTHER -> seg

\* an embedded document instance with field b
Embedded(b) == <<"doc", <<b>>>>
IsEmbedded(v) == v[1] = "doc"

\* field.to_mongo(value): an embedded document becomes its SON with the
\* class tag and the storage names, a list is converted element by element
RECURSIVE ToMongo(_)
ToMongo(v) ==
    IF IsEmbedded(v)
    THEN VDict(<< <<K("_cls"), VStr("Embedded")>>, <<K("db_b"), v[2][1]>> >>)
    ELSE IF IsList(v) THEN VList([i \in 1..Len(Items(v)) |-> ToMongo(Items(v)[i])])
    ELSE v

\* field.to_python(value)
RECURSIVE ToPython(_)
ToPython(v) ==
    IF IsDict(v) /\ DictHas(v, K("_cls")) THEN Embedded(DictGet(v, K("db_b")))
    ELSE IF IsList(v) THEN VList([i \in 1..Len(Items(v)) |-> ToPython(Items(v)[i])])
    ELSE v

FunPut(f, k, v) == [x \in DOMAIN f \cup {k} |-> IF x = k THEN v ELSE f[x]]
FunDel(f, k) == [x \in DOMAIN f \ {k} |-> f[x]]

\* None, {} and [] are empty
IsEmpty(v) ==
    \/ v = VNone
    \/ (IsDict(v) \/ IsList(v)) /\ Len(Items(v)) = 0

\* reading a field: the local value if there is one, else the stored one
FieldValue(f) ==
    IF f \in DOMAIN internal_data.val THEN internal_data.val[f]
    ELSE IF DbField(f) \in DOMAIN db_data THEN ToPython(db_data[DbField(f)])
    ELSE VNone

IndexOf(seg) == CASE seg = "0" -> 0 [] seg = "1" -> 1 [] seg = "2" -> 2

\* the value at a path: a field, or field g of element i of list field f
ValueAt(p) ==
    IF Len(p) = 1 THEN FieldValue(p[1])
    ELSE IF IsList(FieldValue(p[1])) /\ Len(Items(FieldValue(p[1]))) > IndexOf(p[2])
         THEN Items(FieldValue(p[1]))[IndexOf(p[2]) + 1][2][1]
         ELSE VNone

\* the storage path of a path
DbPath(p) == [i \in 1..Len(p) |-> DbField(p[i])]

IsPrefix(a, b) == Len(a) <= Len(b) /\ SubSeq(b, 1, Len(a)) = a

\* _mark_as_changed(path) with a path under a dirty path keeping the set
\* as it is
MarkAsChanged_keep_finer(dirty, p) ==
    IF \E q \in dirty : IsPrefix(q, p) THEN dirty ELSE dirty \cup {p}

\* _mark_as_changed(path): nothing to record under a path that is dirty
\* already; else the path is recorded and the finer paths under it go
MarkAsChanged(dirty, p) ==
    IF \E q \in dirty : IsPrefix(q, p) THEN dirty
    ELSE {q \in dirty : ~IsPrefix(p, q)} \cup {p}

\* _get_changed_fields()
ChangedFields == internal_data.dirty

\* _delta() with every dirty path in sets
Delta_no_unset ==
    [sets |-> [dp \in {DbPath(p) : p \in ChangedFields} |->
                  ToMongo(ValueAt(CHOOSE p \in ChangedFields : DbPath(p) = dp))],
     unsets |-> [dp \in {} |-> VInt(1)]]

\* _delta(): for every dirty path, an unset with the sentinel 1 when the
\* value at the path is empty, else a set with the serialized value
Delta ==
    LET gone == {p \in ChangedFields : IsEmpty(ValueAt(p))}
        kept == ChangedFields \ gone
    IN  [sets |-> [dp \in {DbPath(p) : p \in kept} |->
                      ToMongo(ValueAt(CHOOSE p \in kept : DbPath(p) = dp))],
         unsets |-> [dp \in {DbPath(p) : p \in gone} |-> VInt(1)]]

NoDelta == [sets |-> [dp \in {} |-> VNone], unsets |-> [dp \in {} |-> VInt(1)]]

\* _to_son(): every field that has a value, serialized under its storage
\* name
ToSon ==
    [k \in {DbField(f) : f \in {f \in DocFields : FieldValue(f) # VNone}} |->
        ToMongo(FieldValue(CHOOSE f \in DocFields : DbField(f) = k))]

\* self.pk
Pk == FieldValue("id")

-----------------------------------------------------------------------------
(* The storage collaborator *)

\* the identifier the collection gives a document inserted without one
NewId == VInt(1)

\* what a storage call can do: succeed, or raise one of the driver's
\* exceptions (DuplicateKeyError is the OperationFailure whose message
\* tells of a duplicate key)
Outcomes == {"ok", "OperationFailure", "DuplicateKeyError"}

\* $set of one path: a field of the document, or field p[3] of element
\* p[2] of the list under p[1]
SetPath(doc, p, v) ==
    IF Len(p) = 1 THEN FunPut(doc, p[1], v)
    ELSE IF p[1] \in DOMAIN doc /\ IsList(doc[p[1]])
              /\ Len(Items(doc[p[1]])) > IndexOf(p[2])
         THEN FunPut(doc, p[1],
                VList([Items(doc[p[1]]) EXCEPT ![IndexOf(p[2]) + 1] =
                          DictPut(@, K(p[3]), v)]))
         ELSE doc

RECURSIVE ApplySets(_, _, _)
ApplySets(doc, sets, todo) ==
    IF todo = {} THEN doc
    ELSE LET p == CHOOSE p \in todo : TRUE
         IN  ApplySets(SetPath(doc, p, sets[p]), sets, todo \ {p})

RECURSIVE ApplyUnsets(_, _)
ApplyUnsets(doc, todo) ==
    IF todo = {} THEN doc
    ELSE LET p == CHOOSE p \in todo : TRUE
         IN  ApplyUnsets(IF Len(p) = 1 THEN FunDel(doc, p[1]) ELSE doc, todo \ {p})

\* a filter that every collection matches, the empty one included
Matches_any(st, id) == TRUE

\* whether the collection holds a document the filter {_id: id} matches
Matches(st, id) == st.present /\ "_id" \in DOMAIN st.doc /\ st.doc["_id"] = id

\* collection.update({_id: id}, update_query)
StoreUpdate(st, id, uq) ==
    IF ~Matches(st, id) THEN st
    ELSE LET s1 == IF "$set" \in DOMAIN uq
                   THEN ApplySets(st.doc, uq["$set"], DOMAIN uq["$set"]) ELSE st.doc
             s2 == IF "$unset" \in DOMAIN uq
                   THEN ApplyUnsets(s1, DOMAIN uq["$unset"]) ELSE s1
         IN  [present |-> TRUE, doc |-> s2]

\* collection.insert(doc): the identifier of the stored document
InsertedId(doc) == IF "_id" \in DOMAIN doc THEN doc["_id"] ELSE NewId
StoreInsert(doc) == [present |-> TRUE, doc |-> FunPut(doc, "_id", InsertedId(doc))]

\* collection.remove({_id: id})
StoreRemove(st, id) == IF Matches(st, id) THEN [present |-> FALSE, doc |-> NoData] ELSE st

-----------------------------------------------------------------------------
(* document.py: save(), reload(), delete() *)

Op(name, path, call, raised) ==
    [name |-> name, path |-> path, call |-> call, raised |-> raised]

\* lines 160-169: the delta without the identifier field, as the update
\* document
SaveSets_keep_id == Delta.sets
SaveSets == FunDel(Delta.sets, <<"_id">>)
UpdateQuery ==
    [k \in (IF DOMAIN SaveSets # {} THEN {"$set"} ELSE {})
           \cup (IF DOMAIN Delta.unsets # {} THEN {"$unset"} ELSE {}) |->
        IF k = "$set" THEN SaveSets ELSE Delta.unsets]

\* line 171 with the update sent whatever the update document holds
ShouldUpdate_always(update_query) == TRUE

\* line 171: if update_query
ShouldUpdate(update_query) == DOMAIN update_query # {}

\* what a caller of save() sees of an exception of the driver: save() has
\* no handler, the exception is the driver's own
SaveRaises(outcome) == outcome

\* lines 158-173: save() of a persisted instance
SaveUpdate ==
    /\ created
    /\ IF ShouldUpdate(UpdateQuery)
       THEN \E outcome \in Outcomes :
               IF outcome = "ok"
               THEN /\ store' = StoreUpdate(store, Pk, UpdateQuery)
                    /\ d_op' = Op("save", <<>>, "update", "none")
               ELSE /\ store' = store
                    /\ d_op' = Op("save", <<>>, "update", SaveRaises(outcome))
       ELSE /\ store' = store
            /\ d_op' = Op("save", <<>>, "none", "none")
    /\ UNCHANGED <<created, db_data, internal_data>>

\* line 178 with the flag left as it was
InsertCreated_unset == FALSE

\* line 178: self._created = True
InsertCreated == TRUE

\* lines 174-182: save() of an instance never persisted
SaveInsert ==
    /\ ~created
    /\ \E outcome \in Outcomes :
          IF outcome # "ok"
          THEN /\ d_op' = Op("save", <<>>, "insert", SaveRaises(outcome))
               /\ UNCHANGED <<created, db_data, internal_data, store>>
          ELSE /\ store' = StoreInsert(ToSon)
               /\ created' = InsertCreated
               /\ IF "id" \in DOMAIN internal_data.val
                  THEN /\ internal_data' =
                            [val |-> FunDel(internal_data.val, "id"),
                             dirty |-> internal_data.dirty \ {<<"id">>}]
                       /\ db_data' = FunPut(db_data, "_id", InsertedId(ToSon))
                       /\ d_op' = Op("save", <<>>, "insert", "none")
                  ELSE /\ UNCHANGED <<internal_data, db_data>>
                       /\ d_op' = Op("save", <<>>, "insert", "KeyError")

\* save()
Save == (SaveUpdate \/ SaveInsert) /\ UNCHANGED <<qvars, uvars, cvars>>

\* reload() with the local data left as they are
ReloadData_keep(data) == data

\* line 191: _set(self, '_internal_data', {})
ReloadData(data) == [val |-> NoData, dirty |-> {}]

\* lines 184-193: reload()
Reload ==
    /\ IF Matches(store, Pk)
       THEN /\ db_data' = store.doc
            /\ internal_data' = ReloadData(internal_data)
            /\ created' = TRUE
            /\ d_op' = Op("reload", <<>>, "find_one", "none")
       ELSE /\ UNCHANGED <<db_data, internal_data, created>>
            /\ d_op' = Op("reload", <<>>, "find_one", "OperationError")
    /\ UNCHANGED store
    /\ UNCHANGED <<qvars, uvars, cvars>>

\* lines 207-211: what delete() raises for an exception of the driver
DeleteRaises(outcome) == "OperationError"

\* lines 203-211: delete()
Delete ==
    /\ \E outcome \in {"ok", "OperationFailure"} :
          IF outcome = "ok"
          THEN /\ store' = StoreRemove(store, Pk)
               /\ d_op' = Op("delete", <<>>, "remove", "none")
          ELSE /\ store' = store
               /\ d_op' = Op("delete", <<>>, "remove", DeleteRaises(outcome))
    /\ UNCHANGED <<created, db_data, internal_data>>
    /\ UNCHANGED <<qvars, uvars, cvars>>

-----------------------------------------------------------------------------
(* The change tracker: hydration and mutation *)

Hello == VStr("hello")
HelloWorld == VDict(<< <<K("hello"), VStr("world")>> >>)
ListA(k) == VList(<<Embedded(VInt(0)), Embedded(VInt(0)), Embedded(VInt(k))>>)

\* the values the fields are assigned
FieldValues(f) ==
    CASE f = "id" -> {VInt(2)}
      [] f = "string_field" -> {Hello}
      [] f = "dict_field" -> {HelloWorld, VDict(<<>>)}
      [] f = "a" -> {ListA(1), VList(<<>>)}

NestedValues == {1, 2}

\* Doc.objects.first(): the instance is one hydrated from the stored
\* document, with no local value and nothing dirty
Hydrate ==
    /\ store.present
    /\ db_data' = store.doc
    /\ internal_data' = [val |-> NoData, dirty |-> {}]
    /\ created' = TRUE
    /\ d_op' = Op("hydrate", <<>>, "find", "none")
    /\ UNCHANGED store
    /\ UNCHANGED <<qvars, uvars, cvars>>

\* doc.f = v: the local value is set and the field is dirty
SetField ==
    /\ \E f \in DocFields : \E v \in FieldValues(f) :
          /\ internal_data' =
                [val |-> FunPut(internal_data.val, f, v),
                 dirty |-> MarkAsChanged(internal_data.dirty, <<f>>)]
          /\ d_op' = Op("set", <<f>>, "none", "none")
    /\ UNCHANGED <<created, db_data, store>>
    /\ UNCHANGED <<qvars, uvars, cvars>>

\* doc.a[2].b = k: the element is changed in place and a.2.b is dirty
SetNested ==
    /\ IsList(FieldValue("a"))
    /\ Len(Items(FieldValue("a"))) > 2
    /\ \E k \in NestedValues :
          internal_data' =
             [val |-> FunPut(internal_data.val, "a",
                         VList([Items(FieldValue("a")) EXCEPT ![3] = Embedded(VInt(k))])),
              dirty |-> MarkAsChanged(internal_data.dirty, <<"a", "2", "b">>)]
    /\ d_op' = Op("set", <<"a", "2", "b">>, "none", "none")
    /\ UNCHANGED <<created, db_data, store>>
    /\ UNCHANGED <<qvars, uvars, cvars>>

DInit ==
    /\ NewDocument
    /\ NoQuery
    /\ NoUpdate
    /\ NoCascade

DNext == Save \/ Reload \/ Delete \/ Hydrate \/ SetField \/ SetNested

DocSpec == DInit /\ [][DNext]_vars

-----------------------------------------------------------------------------
(* Properties of the document *)

Saved == d_op.name = "save" /\ d_op.raised = "none"
Clean == ChangedFields = {} /\ Delta = NoDelta
DeltaKeys == DOMAIN Delta.sets \cup DOMAIN Delta.unsets
ProperPrefix(a, b) == IsPrefix(a, b) /\ a # b

\* C4: after save() has returned without an exception the document is
\* clean: no path is dirty and the delta is ({}, {})
C4_CleanAfterSave == Saved => Clean

\* C5: save() of a persisted document whose delta, the identifier field
\* removed, has no sets and no unsets makes no call to the storage: the
\* call is none and the stored document is the one before
C5_NoCallOnEmptyDelta ==
    [][(/\ created
        /\ DOMAIN SaveSets = {}
        /\ DOMAIN Delta.unsets = {}
        /\ d_op'.name = "save")
       => (d_op'.call = "none" /\ d_op'.raised = "none" /\ store' = store)]_vars

\* C5 witness: save() of a persisted, clean document has returned and has
\* called nothing
C5_Witness ==
    /\ d_op.name = "save"
    /\ d_op.call = "none"
    /\ created
    /\ DOMAIN SaveSets = {}
    /\ DOMAIN Delta.unsets = {}

C7_SetsAndUnsets ==
    /\ \A dp \in DOMAIN Delta.unsets : Delta.unsets[dp] = VInt(1)
    /\ DOMAIN Delta.sets \cap DOMAIN Delta.unsets = {}
    /\ (created /\ d_op.name = "set" /\ Len(d_op.path) = 1) =>
          LET f == d_op.path[1]
              dp == <<DbField(f)>>
          IN  IF IsEmpty(FieldValue(f))
              THEN /\ dp \in DOMAIN Delta.unsets
                   /\ Delta.unsets[dp] = VInt(1)
                   /\ dp \notin DOMAIN Delta.sets
              ELSE /\ dp \in DOMAIN Delta.sets
                   /\ Delta.sets[dp] = ToMongo(FieldValue(f))
                   /\ dp \notin DOMAIN Delta.unsets

\* C7 witness: the dict field of a persisted document that stored one has
\* been cleared, and the delta is the unset of db_dict_field alone
C7_Witness ==
    /\ created
    /\ d_op.name = "set"
    /\ d_op.path = <<"dict_field">>
    /\ "db_dict_field" \in DOMAIN db_data
    /\ FieldValue("dict_field") = VDict(<<>>)
    /\ DOMAIN Delta.sets = {}
    /\ DOMAIN Delta.unsets = {<<"db_dict_field">>}

C9_FailuresReRaised ==
    (d_op.name \in {"save", "delete"} /\ d_op.call # "none" /\ d_op.raised # "none")
        => d_op.raised \in {"NotUniqueError", "OperationError"}

-----------------------------------------------------------------------------
(* Deleting from a collection whose documents reference their own type     *)
(* under CASCADE: Category.parent = ReferenceField('self',                 *)
(* reverse_delete_rule=CASCADE).  Document.delete() hands the document's   *)
(* key to QuerySet.delete(), which first deletes the documents that        *)
(* reference a match and then removes the matches.                         *)

MaxNodes == 3

Nodes == 1..MaxNodes

\* the collections delete() is called on: every document is saved with at
\* most one parent, the parent being any document, itself included
Hierarchies == [Nodes -> 0..MaxNodes]

\* the documents whose parent field holds one of ids
Referrers(ids) == {d \in c_coll : c_docs.parent[d] \in ids}

\* the identifiers the delete() calls in progress are about to remove
InProgress == UNION {c_stack[i].ids : i \in DOMAIN c_stack}

Unvisited_all(refs) == refs

\* the guard of a self-referencing cascade: a document a call in progress
\* already holds is not matched again
Unvisited(refs) == refs \ InProgress

CInit ==
    /\ NewDocument
    /\ NoQuery
    /\ NoUpdate
    /\ c_pc = "call"
    /\ c_docs \in [parent : Hierarchies, target : Nodes]
    /\ c_coll = Nodes
    /\ c_stack = <<>>
    /\ c_removed = [d \in Nodes |-> 0]

\* Document.delete(): self._qs.filter(**self._object_key).delete()
DeleteDocument ==
    /\ c_pc = "call"
    /\ c_pc' = "running"
    /\ c_stack' = <<[ids |-> {c_docs.target}, pc |-> "refs"]>>
    /\ UNCHANGED <<c_docs, c_coll, c_removed>>
    /\ UNCHANGED <<qvars, uvars, dvars>>

\* QuerySet.delete(), the CASCADE rule: the documents referencing a match
\* are deleted by a nested delete() before the matches are removed
CascadeRefs ==
    /\ c_pc = "running"
    /\ c_stack # <<>>
    /\ Len(c_stack) <= MaxNodes
    /\ c_stack[Len(c_stack)].pc = "refs"
    /\ LET top == c_stack[Len(c_stack)]
           refs == Unvisited(Referrers(top.ids))
           here == [c_stack EXCEPT ![Len(c_stack)].pc = "remove"]
       IN  c_stack' = IF refs = {} THEN here
                      ELSE Append(here, [ids |-> refs, pc |-> "refs"])
    /\ UNCHANGED <<c_docs, c_coll, c_removed, c_pc>>
    /\ UNCHANGED <<qvars, uvars, dvars>>

\* QuerySet.delete(), the removal: the matches leave the collection and
\* the call returns to its caller
CascadeRemove ==
    /\ c_pc = "running"
    /\ c_stack # <<>>
    /\ c_stack[Len(c_stack)].pc = "remove"
    /\ LET top == c_stack[Len(c_stack)]
       IN  /\ c_coll' = c_coll \ top.ids
           /\ c_removed' = [d \in Nodes |->
                  IF d \in top.ids THEN c_removed[d] + 1 ELSE c_removed[d]]
    /\ c_stack' = Front(c_stack)
    /\ c_pc' = IF Len(c_stack) = 1 THEN "done" ELSE "running"
    /\ UNCHANGED c_docs
    /\ UNCHANGED <<qvars, uvars, dvars>>

CNext == DeleteDocument \/ CascadeRefs \/ CascadeRemove

\* the calls are synchronous: a call in progress takes its next step
CascadeSpec == CInit /\ [][CNext]_vars /\ WF_vars(CNext)

-----------------------------------------------------------------------------
(* Properties of the cascade *)

\* the documents that reference one of ids through any number of parents
RECURSIVE TransitiveReferrers(_)
TransitiveReferrers(ids) ==
    LET more == ids \cup {d \in Nodes : c_docs.parent[d] \in ids}
    IN  IF more = ids THEN ids ELSE TransitiveReferrers(more)

\* the collection is one tree and delete() is called on its root
RootOfTree ==
    /\ c_docs.parent[c_docs.target] = 0
    /\ TransitiveReferrers({c_docs.target}) = Nodes

\* C21: delete() on a document of a self-referencing CASCADE collection
\* returns, whatever the hierarchy; when it has returned the document and
\* its transitive referrers have left the collection and nothing else has,
\* each of them was removed exactly once, and the collection is empty when
\* the document was the root of a tree
C21_CascadeTerminates ==
    /\ <>(c_pc = "done")
    /\ [](c_pc \in {"call", "running", "done"} =>
            \A d \in Nodes : c_removed[d] <= 1)
    /\ [](c_pc = "done" =>
            /\ c_coll = Nodes \ TransitiveReferrers({c_docs.target})
            /\ \A d \in Nodes : c_removed[d] =
                  IF d \in TransitiveReferrers({c_docs.target}) THEN 1 ELSE 0
            /\ RootOfTree => c_coll = {})

\* C21 witness: delete() on the root of a chain three documents deep has
\* returned and the collection is empty
C21_Witness ==
    /\ c_pc = "done"
    /\ c_docs.target = 1
    /\ \A d \in Nodes : c_docs.parent[d] = d - 1
    /\ c_coll = {}
    /\ \A d \in Nodes : c_removed[d] = 1

-----------------------------------------------------------------------------
(* Further properties of query() *)

\* C22 (as claimed): every element of the $and array query() returns is a
\* one-key document; fragments folded into a $and that already exists
\* (from __raw__ or from another colliding key) are appended one by one,
\* never as a nested list.
C22_AndOfOneKeyDocuments ==
    (Returned /\ q_ret.exc = "none") =>
        \A e \in AndElements : IsDict(e) /\ Len(Items(e)) = 1

\* the calls the order of whose pairs is varied: up to MaxPairs pairs of
\* keys that collide on f and id
OrderKeys ==
    { <<"__raw__">>, <<"f">>, <<"f", "gt">>, <<"f", "in">>, <<"f", "lt">>,
      <<"id">>, <<"id", "gt">> }

OrderCalls ==
    UNION {CallsOf(S) :
           S \in {S \in SUBSET {RankOf(k) : k \in OrderKeys} :
                    Cardinality(S) >= 1 /\ Cardinality(S) <= MaxPairs}}

OInit ==
    /\ NewDocument
    /\ NoUpdate
    /\ NoCascade
    /\ q_pc = "call"
    /\ q_doc_cls \in BOOLEAN
    /\ q_kwargs \in OrderCalls
    /\ q_ret = [exc |-> "none", doc |-> VNone]
    /\ q_sent = VNone
    /\ q_raw = QueryRaw(q_kwargs)

OrderSpec == OInit /\ [][QNext]_vars

\* the orders a caller can supply the pairs of the call in
Orders ==
    LET S == DOMAIN q_kwargs
    IN  {o \in [1..Cardinality(S) -> S] :
            \A i, j \in 1..Cardinality(S) : i # j => o[i] # o[j]}

\* query() on the pairs of the call supplied in the order o
QueryInOrder(o) ==
    QueryOf(q_doc_cls, [i \in DOMAIN o |-> <<QueryKeys[o[i]], q_kwargs[o[i]]>>])

\* C23: query() returns (or raises) the same for the same pairs in
\* whatever order the caller supplies them: the pairs are processed in the
\* sorted order of their keys
C23_SameDocumentInAnyOrder ==
    Returned => \A o \in Orders : QueryInOrder(o) = q_ret

\* C23 witness: f=2, f__gt=1 and id=1 have been compiled from each of
\* their six orders into one document whose $and holds the fragments
C23_Witness ==
    /\ Returned
    /\ ~q_doc_cls
    /\ DOMAIN q_kwargs = {RankOf(<<"f">>), RankOf(<<"f", "gt">>), RankOf(<<"id">>)}
    /\ Cardinality(Orders) = 6
    /\ \A o \in Orders : QueryInOrder(o) = q_ret
    /\ q_ret.exc = "none"
    /\ DictHas(q_ret.doc, K("$and"))

\* the operator of the pair of rank r
OpOf(r) == ParseKey(QueryKeys[r]).op

\* the keys of a mapping in the order it lists them
KeyOrder(d) == [i \in 1..Len(Items(d)) |-> Items(d)[i][1]]

\* C25: when a max_distance pair and a pair of another geo operator of one
\* call compile to the same storage key, the operator document returned
\* under that key has $maxDistance, with the value of the pair, as its
\* last key and the other operator's keys before it
C25_MaxDistanceLast ==
    (Returned /\ q_ret.exc = "none") =>
        \A r1, r2 \in PairRanks :
            (/\ OpOf(r1) = "max_distance"
             /\ OpOf(r2) \in GEO_OPERATORS \ {"max_distance"}
             /\ PairOf(r1).key = PairOf(r2).key)
            => LET d == DictGet(q_ret.doc, PairOf(r1).key)
               IN  /\ DictHas(q_ret.doc, PairOf(r1).key)
                   /\ IsDict(d)
                   /\ Last(KeyOrder(d)) = K("$maxDistance")
                   /\ DictGet(d, K("$maxDistance")) = q_kwargs[r1]
                   /\ \A k \in DictKeys(PairOf(r2).value) : DictHas(d, k)

\* C25 witness: query(pt__max_distance=1, pt__near=[1, 2]) with a schema
\* has returned {pt: {$near: ..., $maxDistance: 1}}, the pair processed
\* first listed last
C25_Witness ==
    /\ Returned
    /\ q_doc_cls
    /\ DOMAIN q_kwargs = {RankOf(<<"pt", "max_distance">>), RankOf(<<"pt", "near">>)}
    /\ q_kwargs[RankOf(<<"pt", "max_distance">>)] = VInt(1)
    /\ q_kwargs[RankOf(<<"pt", "near">>)] = Point
    /\ q_ret.exc = "none"
    /\ KeyOrder(DictGet(q_ret.doc, K("pt"))) = <<K("$near"), K("$maxDistance")>>

\* whether a sequence (a list or a tuple) is nested at least n levels
\* deep along its first elements; a string can be indexed without end
RECURSIVE NestedAtLeast(_, _)
NestedAtLeast(v, n) ==
    IF n = 0 THEN TRUE
    ELSE IF IsStr(v) THEN TRUE
    ELSE /\ IsList(v) \/ IsTuple(v)
         /\ Len(Items(v)) > 0
         /\ NestedAtLeast(Items(v)[1], n - 1)

\* the geometry the spec infers from a value, "none" when it infers none
SpecGeometry(v) ==
    IF IsDict(v)
    THEN IF DictHas(v, K("$geometry")) THEN v
         ELSE IF DictHas(v, K("coordinates")) /\ DictHas(v, K("type"))
              THEN VDict(<< <<K("$geometry"), v>> >>)
              ELSE VNone
    ELSE IF ~(IsList(v) \/ IsTuple(v)) THEN VNone
    ELSE IF NestedAtLeast(v, 3) THEN Geometry("Polygon", v)
    ELSE IF NestedAtLeast(v, 2) THEN Geometry("LineString", v)
    ELSE IF NestedAtLeast(v, 1) THEN Geometry("Point", v)
    ELSE VNone

\* C26 (as claimed): loc__geo_within on a GeoJSON field compiles a sequence
\* nested three levels deep to a Polygon $geometry, two levels to a
\* LineString, one level to a Point, a mapping with $geometry to itself and
\* one with type and coordinates to {$geometry: mapping}; anything else
\* raises InvalidQueryError.
C26_GeometryInferredFromSequence ==
    (Returned /\ q_doc_cls /\ IsCallOf(<<"loc", "geo_within">>)) =>
        LET v == q_kwargs[RankOf(<<"loc", "geo_within">>)]
        IN  IF SpecGeometry(v) = VNone
            THEN q_ret = [exc |-> "InvalidQueryError", doc |-> VNone]
            ELSE q_ret = [exc |-> "none",
                          doc |-> Wrap1("loc", Wrap1("$geoWithin", SpecGeometry(v)))]

-----------------------------------------------------------------------------
(* Further properties of update() *)

\* the pairs of the call other than __raw__
UPairs == {i \in 1..Len(u_kwargs) : ~IsRaw(UKey(i))}

\* the pairs after the i-th that write the literal key lk under the
\* operator of the i-th, and the value the last writer leaves there
LaterWriters(i, lk) ==
    {j \in UPairs : j > i /\ Bucket(j) = Bucket(i) /\ DictHas(UPairOf(j).value, lk)}
LastWritten(i, lk) ==
    LET w == LaterWriters(i, lk) \cup {i}
    IN  DictGet(UPairOf(CHOOSE j \in w : \A x \in w : x <= j).value, lk)

\* the entries of the i-th pair are in its operator's document, each with
\* the value its last writer gave it
EntriesKept(i) ==
    /\ DictHas(u_ret.doc, Bucket(i))
    /\ IsDict(UStored(i))
    /\ \A lk \in DictKeys(UPairOf(i).value) :
          /\ DictHas(UStored(i), lk)
          /\ DictGet(UStored(i), lk) = LastWritten(i, lk)

\* a __raw__ after the i-th pair carries the operator of the i-th pair
RawReplaces(i) ==
    \E j \in 1..Len(u_kwargs) :
        j > i /\ IsRaw(UKey(j)) /\ DictHas(UValue(j), Bucket(i))

\* the top-level keys are the operators of the pairs and the keys of
\* __raw__, none of them twice and none of them $dec
OneKeyPerOperator ==
    /\ DictKeys(u_ret.doc) =
          {Bucket(i) : i \in UPairs} \cup
          UNION {DictKeys(UValue(j)) : j \in 1..Len(u_kwargs) \ UPairs}
    /\ \A a, b \in 1..Len(Items(u_ret.doc)) :
          Items(u_ret.doc)[a][1] = Items(u_ret.doc)[b][1] => a = b
    /\ ~DictHas(u_ret.doc, K("$dec"))

\* C24 (as claimed): the document update() returns has one key "$"+op per
\* canonical operator used, dec and inc sharing $inc, and every entry of
\* every pair is in its operator's document, with the value of the last
\* pair that wrote it.
C24_EveryPairInItsBucket ==
    UReturnedDoc => (OneKeyPerOperator /\ \A i \in UPairs : EntriesKept(i))

\* C24 (amended): the same, for the pairs that no later __raw__ carrying
\* their operator follows; a __raw__ replaces the operator documents it
\* names, so the entries of the pairs before it are gone, and with no pair
\* of that operator after it the operator document is the one of __raw__.
C24_EveryPairInItsBucketUnlessRaw ==
    UReturnedDoc =>
        /\ OneKeyPerOperator
        /\ \A i \in UPairs : ~RawReplaces(i) => EntriesKept(i)
        /\ \A i \in UPairs : \A j \in 1..Len(u_kwargs) :
              (/\ j > i /\ IsRaw(UKey(j)) /\ DictHas(UValue(j), Bucket(i))
               /\ \A x \in UPairs : x > j => Bucket(x) # Bucket(i))
              => UStored(i) = DictGet(UValue(j), Bucket(i))

\* C24 witness: update(inc__f=1, dec__f=1) has returned {$inc: {f: -1}},
\* one operator document with the later pair's value
C24_Witness ==
    /\ UReturnedDoc
    /\ ~u_doc_cls
    /\ u_kwargs = << <<(<<"inc", "f">>), VInt(1)>>, <<(<<"dec", "f">>), VInt(1)>> >>
    /\ u_ret.doc = VDict(<< <<K("$inc"), VDict(<< <<K("f"), VInt(0 - 1)>> >>)>> >>)

-----------------------------------------------------------------------------
(* Further properties of the document: the life cycle *)

\* the step is a call of save(), of reload()
SaveStep == d_op'.name = "save"
ReloadStep == d_op'.name = "reload"

\* the collection holds the document the instance's identifier names
StoredHere ==
    store.present /\ "_id" \in DOMAIN store.doc /\ store.doc["_id"] = Pk

\* C27: while the storage calls succeed, save() inserts only when the
\* instance is not persisted, with the whole serialized document, and the
\* insert marks it persisted; save() of a persisted instance sends at most
\* an update filtered by the identifier, never an insert; no step takes
\* the persisted flag from true to false
C27_InsertAtMostOnce ==
    [][/\ created => created'
       /\ (SaveStep /\ d_op'.raised = "none") =>
             IF created
             THEN /\ d_op'.call \in {"update", "none"}
                  /\ d_op'.call = "update" =>
                        store' = StoreUpdate(store, Pk, UpdateQuery)
                  /\ d_op'.call = "none" => store' = store
             ELSE /\ d_op'.call = "insert"
                  /\ store' = StoreInsert(ToSon)
                  /\ created']_vars

\* C27 witness: the instance was inserted, a field was assigned, and a
\* later save() has sent an update that reached the stored document
C27_Witness ==
    /\ created
    /\ d_op = Op("save", <<>>, "update", "none")
    /\ StoredHere
    /\ "db_string_field" \in DOMAIN store.doc
    /\ store.doc["db_string_field"] = ToMongo(Hello)

\* C28: a save() of an instance not persisted whose insert raises leaves
\* the instance not persisted and its data and the collection as they
\* were, so that the next save() is an insert again; a reload() that finds
\* no stored document raises OperationError and leaves the stored data,
\* the local data and the persisted flag as they were
C28_FailureLeavesStateUnchanged ==
    [][/\ (SaveStep /\ ~created /\ d_op'.raised # "none") =>
             /\ ~created'
             /\ UNCHANGED <<db_data, internal_data, store>>
             /\ "_id" \notin DOMAIN db_data'
       /\ (SaveStep /\ ~created) => d_op'.call = "insert"
       /\ (ReloadStep /\ ~StoredHere) =>
             /\ d_op'.raised = "OperationError"
             /\ UNCHANGED <<db_data, internal_data, created, store>>]_vars

\* C28 witness: the insert of a save() has raised, and the instance, with
\* a field assigned, is still not persisted and has no identifier
C28_Witness ==
    /\ d_op.name = "save"
    /\ d_op.call = "insert"
    /\ d_op.raised \in {"OperationFailure", "DuplicateKeyError"}
    /\ ~created
    /\ ~store.present
    /\ "_id" \notin DOMAIN db_data
    /\ ChangedFields # {}

-----------------------------------------------------------------------------
(* Properties of query() and update(): the caller's arguments *)

\* C30 (as claimed): when query() or update() has returned or raised, the
\* mapping the caller passed as __raw__ is the mapping the caller passed,
\* the mappings and lists nested in it included, whatever other pairs of
\* the call fall on its keys or its operators.
C30_RawArgumentUnchanged ==
    /\ Returned => q_raw = QueryRaw(q_kwargs)
    /\ URaised => u_raw = UpdateRaw(u_kwargs)

====
